---- MODULE Spec2Model ----
(***************************************************************************)
(* Model of the time-series analytics engine of AStock:                    *)
(*   src/src/indicators/calculator.py  (IndicatorCalculator)               *)
(*   src/src/analysis/analyzer.py      (DataAnalyzer)                      *)
(*                                                                         *)
(* Both classes are stateless: every public method is a function of the    *)
(* DataFrame it is handed.  The state machine therefore holds the frame    *)
(* the caller owns (df), the last operation invoked (op), its parameters   *)
(* (arg) and its return value (out).  Init draws the frame from a bounded  *)
(* set; each action is one public method call.                             *)
(* self holds the fields of the instance the methods are called on, and    *)
(* tasks the invocations of calculate_all_indicators in progress, each at  *)
(* its own line of the chain with its own local frame.                     *)
(*                                                                         *)
(* Numbers: a float64 is modelled as an exact rational n/d extended with   *)
(* the IEEE specials: d = 0, n = 0 is NaN; d = 0, n = +-1 is +-infinity.   *)
(* Rounding error and the sign of zero are not modelled.                   *)
(* Indices: Python positions 0..n-1 are TLA+ positions 1..n.               *)
(***************************************************************************)
EXTENDS Integers, Sequences, FiniteSets, TLC

VARIABLES df, op, arg, out, self, tasks

vars == <<df, op, arg, out, self, tasks>>

-----------------------------------------------------------------------------
(* Bounds of the model.                                                    *)

\* longest Series of closes, and the largest first close in it
MaxLen == 5
MaxPrice == 2
\* largest period / span handed to calculate_ma, calculate_ema, calculate_rsi
MaxPeriod == 3
\* longest Series of daily returns handed to find_consecutive_days
MaxDays == 5
\* longest Series of high/low/close bars handed to calculate_kdj, the largest
\* price in it and the largest fastk_period
MaxKdjLen == 3
MaxKdjPrice == 2
MaxFastK == 2
\* longest OHLCV Series handed to calculate_all_indicators and the largest
\* first close in it
MaxAllLen == 4
MaxAllPrice == 2
\* longest Series handed to generate_summary and the largest first close in it
MaxSumLen == 3
MaxSumPrice == 2
\* SpecTasks: the invocations of calculate_all_indicators in flight
MaxTasks == 2
\* SpecCorr: the trading days two Series are drawn from and the largest close
MaxCorrDays == 3
MaxCorrPrice == 2
\* SpecCompare: the Series handed to compare_indices and the largest close
MaxCmpSeries == 3
MaxCmpPrice == 2
\* SpecVolumePrice: the longest Series handed to analyze_volume_price, the
\* largest close and the largest volume in it
MaxVpLen == 3
MaxVpPrice == 2
MaxVpVolume == 3
\* SpecVolatility: the largest window handed to calculate_volatility
MaxVolWindow == 3
\* SpecSR: the longest Series of every shape handed to
\* detect_support_resistance, the number of peaks (or troughs) of the longer
\* zigzag Series, the spread of the highs, the largest window and num_levels
MaxSrLen == 4
MaxSrPeaks == 3
MaxSrStep == 3
MaxSrWindow == 2
MaxSrLevels == 2
\* SpecCluster: the longest list of levels handed to cluster_levels
MaxLevels == 3

-----------------------------------------------------------------------------
(* float64 values                                                          *)

Abs(x) == IF x < 0 THEN -x ELSE x

Sgn(x) == IF x < 0 THEN -1 ELSE IF x > 0 THEN 1 ELSE 0

RECURSIVE GCD(_, _)
GCD(a, b) == IF b = 0 THEN a ELSE GCD(b, a % b)

\* the rational n/d, d > 0, in lowest terms
Rat(n, d) ==
    LET g == GCD(Abs(n), d)
    IN  [n |-> Sgn(n) * (Abs(n) \div g), d |-> d \div g]

Num(k) == [n |-> k, d |-> 1]

NaN == [n |-> 0, d |-> 0]

Inf(s) == [n |-> s, d |-> 0]

IsNaN(v) == v.d = 0 /\ v.n = 0

IsInf(v) == v.d = 0 /\ v.n # 0

IsFin(v) == v.d > 0

\* pd.notna / pd.isna
NotNa(v) == ~IsNaN(v)

Neg(a) == [n |-> -a.n, d |-> a.d]

Add(a, b) ==
    IF IsNaN(a) \/ IsNaN(b) THEN NaN
    ELSE IF IsInf(a) THEN (IF IsInf(b) /\ b.n # a.n THEN NaN ELSE a)
    ELSE IF IsInf(b) THEN b
    ELSE LET g == GCD(a.d, b.d)
         IN  Rat(a.n * (b.d \div g) + b.n * (a.d \div g), a.d * (b.d \div g))

Sub(a, b) == Add(a, Neg(b))

Mul(a, b) ==
    IF IsNaN(a) \/ IsNaN(b) THEN NaN
    ELSE IF IsInf(a) \/ IsInf(b)
         THEN (IF a.n = 0 \/ b.n = 0 THEN NaN ELSE Inf(Sgn(a.n) * Sgn(b.n)))
    ELSE LET g1 == GCD(Abs(a.n), b.d)
             g2 == GCD(Abs(b.n), a.d)
         IN  Rat((a.n \div g1) * (b.n \div g2), (a.d \div g2) * (b.d \div g1))

\* numpy division: x/0 is +-inf, 0/0 is NaN, no exception
Div(a, b) ==
    IF IsNaN(a) \/ IsNaN(b) THEN NaN
    ELSE IF IsInf(a)
         THEN (IF IsInf(b) THEN NaN ELSE Inf(a.n * (IF b.n < 0 THEN -1 ELSE 1)))
    ELSE IF IsInf(b) THEN Num(0)
    ELSE IF b.n = 0 THEN (IF a.n = 0 THEN NaN ELSE Inf(Sgn(a.n)))
    ELSE Mul(a, [n |-> Sgn(b.n) * b.d, d |-> Abs(b.n)])

\* a < b; every comparison with NaN is false
Lt(a, b) ==
    /\ ~IsNaN(a)
    /\ ~IsNaN(b)
    /\ a # b
    /\ \/ IsInf(a) /\ a.n < 0
       \/ IsInf(b) /\ b.n > 0
       \/ IsFin(a) /\ IsFin(b) /\ Add(a, Neg(b)).n < 0

Gt(a, b) == Lt(b, a)

Le(a, b) == ~IsNaN(a) /\ ~IsNaN(b) /\ ~Lt(b, a)

Ge(a, b) == Le(b, a)

-----------------------------------------------------------------------------
(* DataFrames: a row count and named columns of equal length.  A column    *)
(* name is <<text, number>>; "MA5" is <<"MA", 5>>, "close" is <<"close",0>>*)

CLOSE == <<"close", 0>>
HIGH == <<"high", 0>>
LOW == <<"low", 0>>
VOLUME == <<"volume", 0>>
PCT_CHANGE == <<"pct_change", 0>>
DATE == <<"date", 0>>

EmptyFrame == [len |-> 0, col |-> <<>>]

Range(s) == {s[i] : i \in 1..Len(s)}

Columns(f) == DOMAIN f.col

HasCol(f, c) == c \in Columns(f)

\* result[c] = s
SetCol(f, c, s) == [f EXCEPT !.col = (c :> s) @@ @]

\* the frame built from the given columns
Frame(n, cols) == [len |-> n, col |-> cols]

-----------------------------------------------------------------------------
(* pandas Series operations used by the engine, computed as pandas does.   *)

\* Series.diff(): the first position has no predecessor
diff(s) == [i \in 1..Len(s) |-> IF i = 1 THEN NaN ELSE Sub(s[i], s[i - 1])]

\* Series.pct_change(): (s[i] - s[i-1]) / s[i-1]
pct_change(s) ==
    [i \in 1..Len(s) |-> IF i = 1 THEN NaN ELSE Div(Sub(s[i], s[i - 1]), s[i - 1])]

\* the positions of the window ending at i
Window(i, w) == (IF i - w + 1 < 1 THEN 1 ELSE i - w + 1)..i

Observed(s, i, w) == {j \in Window(i, w) : NotNa(s[j])}

RECURSIVE SumOver(_, _)
SumOver(s, J) ==
    IF J = {} THEN Num(0)
    ELSE LET j == CHOOSE x \in J : TRUE IN Add(s[j], SumOver(s, J \ {j}))

\* Series.rolling(window=w).mean(), min_periods = w: a running sum to which
\* the entering value is added and from which the leaving one is removed;
\* the mean is produced only when w non-NaN observations are in the window
RECURSIVE roll_mean_loop(_, _, _, _, _, _)
roll_mean_loop(s, w, i, sum_x, nobs, output) ==
    IF i > Len(s) THEN output
    ELSE LET leaves == i > w /\ NotNa(s[i - w])
             sum1 == IF leaves THEN Sub(sum_x, s[i - w]) ELSE sum_x
             nobs1 == IF leaves THEN nobs - 1 ELSE nobs
             enters == NotNa(s[i])
             sum2 == IF enters THEN Add(sum1, s[i]) ELSE sum1
             nobs2 == IF enters THEN nobs1 + 1 ELSE nobs1
             res == IF nobs2 >= w /\ nobs2 > 0 THEN Div(sum2, Num(nobs2)) ELSE NaN
         IN  roll_mean_loop(s, w, i + 1, sum2, nobs2, Append(output, res))

\* rolling(window=w, min_periods=1).mean(): partial windows produce a mean
rolling_mean_partial(s, w) ==
    [i \in 1..Len(s) |-> Div(SumOver(s, Observed(s, i, w)), Num(Cardinality(Observed(s, i, w))))]

rolling_mean(s, w) == roll_mean_loop(s, w, 1, Num(0), 0, <<>>)

\* Series.rolling(window=w).min() / .max(), min_periods = w
rolling_min(s, w) ==
    [i \in 1..Len(s) |->
        IF Cardinality(Observed(s, i, w)) >= w
        THEN s[CHOOSE j \in Observed(s, i, w) :
                   \A k \in Observed(s, i, w) : Le(s[j], s[k])]
        ELSE NaN]

rolling_max(s, w) ==
    [i \in 1..Len(s) |->
        IF Cardinality(Observed(s, i, w)) >= w
        THEN s[CHOOSE j \in Observed(s, i, w) :
                   \A k \in Observed(s, i, w) : Ge(s[j], s[k])]
        ELSE NaN]

\* the square of Series.rolling(window=w).std() (ddof = 1): the sum of
\* squared deviations from the window mean over nobs - 1; NaN unless the
\* window holds w observations and more than one
rolling_var(s, w) ==
    [i \in 1..Len(s) |->
        LET J == Observed(s, i, w)
            n == Cardinality(J)
            mean == Div(SumOver(s, J), Num(n))
            dev2 == [j \in 1..Len(s) |-> Mul(Sub(s[j], mean), Sub(s[j], mean))]
        IN  IF n >= w /\ n > 1 THEN Div(SumOver(dev2, J), Num(n - 1)) ELSE NaN]

\* Series.ewm(alpha=alpha, adjust=False).mean() (ignore_na=False,
\* min_periods=0): the running average is seeded by the first observation;
\* a NaN input repeats the running average and ages its weight, so that the
\* next observation is blended with weight alpha / ((1-alpha)^(g+1) + alpha)
\* after g missing inputs
RECURSIVE ewm_loop(_, _, _, _, _, _, _)
ewm_loop(vals, alpha, i, weighted, old_wt, nobs, output) ==
    IF i > Len(vals) THEN output
    ELSE LET cur == vals[i]
             is_observation == NotNa(cur)
             nobs1 == IF is_observation THEN nobs + 1 ELSE nobs
             aged == Mul(old_wt, Sub(Num(1), alpha))
             blended == Div(Add(Mul(aged, weighted), Mul(alpha, cur)), Add(aged, alpha))
             weighted1 == IF NotNa(weighted)
                          THEN (IF is_observation THEN blended ELSE weighted)
                          ELSE (IF is_observation THEN cur ELSE weighted)
             old_wt1 == IF NotNa(weighted) /\ ~is_observation THEN aged ELSE Num(1)
             res == IF nobs1 >= 1 THEN weighted1 ELSE NaN
         IN  ewm_loop(vals, alpha, i + 1, weighted1, old_wt1, nobs1, Append(output, res))

\* ewm(..., ignore_na=True): a NaN input does not age the running average
RECURSIVE ewm_loop_ignore_na(_, _, _, _, _)
ewm_loop_ignore_na(vals, alpha, i, weighted, output) ==
    IF i > Len(vals) THEN output
    ELSE LET cur == vals[i]
             weighted1 == IF IsNaN(cur) THEN weighted
                          ELSE IF IsNaN(weighted) THEN cur
                          ELSE Add(Mul(Sub(Num(1), alpha), weighted), Mul(alpha, cur))
         IN  ewm_loop_ignore_na(vals, alpha, i + 1, weighted1, Append(output, weighted1))

ewm_mean_ignore_na(vals, alpha) == ewm_loop_ignore_na(vals, alpha, 1, NaN, <<>>)

ewm_mean(vals, alpha) == ewm_loop(vals, alpha, 1, NaN, Num(1), 0, <<>>)

\* ewm(com=span): alpha = 1 / (span + 1)
com_alpha(span) == Rat(1, span + 1)

\* ewm(span=span): alpha = 2 / (span + 1)
span_alpha(span) == Rat(2, span + 1)

\* Series.where(cond, other) with cond = (s > 0) or (s < 0)
where_pos(s, other) == [i \in 1..Len(s) |-> IF Gt(s[i], Num(0)) THEN s[i] ELSE other]

where_neg(s, other) == [i \in 1..Len(s) |-> IF Lt(s[i], Num(0)) THEN s[i] ELSE other]

-----------------------------------------------------------------------------
(* IndicatorCalculator (src/src/indicators/calculator.py).                 *)
(*                                                                         *)
(* Every calculate_* method runs its body inside try/except: the body      *)
(* works on result = df.copy() and either returns it or raises (here: a    *)
(* KeyError on a column the frame does not have).  A body is modelled as   *)
(* [raised, result], result being the copy as it stands at the raise.      *)

\* the instance after __init__, which only logs: a mapping from field names
\* to values with no field in it
NoFields == <<>>

Returned(result) == [raised |-> FALSE, result |-> result]

Raised(result) == [raised |-> TRUE, result |-> result]

\* "except Exception as e: logger.error(...); return pd.DataFrame()"
except_return_empty(f, body) == IF body.raised THEN [len |-> 0, col |-> <<>>] ELSE body.result

\* "except Exception as e: logger.error(...); return df"
except_return_df(f, body) == IF body.raised THEN f ELSE body.result

\* "result = df": no copy, the body writes into the caller's own frame
df_alias(f) == [shared |-> TRUE, frame |-> f]

\* "result = df.copy()": a new object holding the same bars and columns
df_copy(f) == [shared |-> FALSE, frame |-> f]

\* the frame the caller holds once a method has run: the method assigns
\* columns to result only, which is the caller's frame only if the two are
\* one object (and then the frame it returns is that object too)
caller_frame(f, returned) == IF df_copy(f).shared THEN returned ELSE f

\* calculate_ma, the loop over periods
RECURSIVE ma_loop(_, _, _, _)
ma_loop(f, periods, k, result) ==
    IF k > Len(periods) THEN Returned(result)
    ELSE IF f.len >= periods[k]
         THEN (IF ~HasCol(f, CLOSE) THEN Raised(result)
               ELSE ma_loop(f, periods, k + 1,
                        SetCol(result, <<"MA", periods[k]>>,
                               rolling_mean(f.col[CLOSE], periods[k]))))
         ELSE ma_loop(f, periods, k + 1, result)

calculate_ma(f, periods) == except_return_df(f, ma_loop(f, periods, 1, f))

\* calculate_ema with the guard "len(df) > period"
RECURSIVE ema_loop_strict(_, _, _, _)
ema_loop_strict(f, periods, k, result) ==
    IF k > Len(periods) THEN Returned(result)
    ELSE IF f.len > periods[k]
         THEN (IF ~HasCol(f, CLOSE) THEN Raised(result)
               ELSE ema_loop_strict(f, periods, k + 1,
                        SetCol(result, <<"EMA", periods[k]>>,
                               ewm_mean(f.col[CLOSE], span_alpha(periods[k])))))
         ELSE ema_loop_strict(f, periods, k + 1, result)

\* calculate_ema, the loop over periods
RECURSIVE ema_loop(_, _, _, _)
ema_loop(f, periods, k, result) ==
    IF k > Len(periods) THEN Returned(result)
    ELSE IF f.len >= periods[k]
         THEN (IF ~HasCol(f, CLOSE) THEN Raised(result)
               ELSE ema_loop(f, periods, k + 1,
                        SetCol(result, <<"EMA", periods[k]>>,
                               ewm_mean(f.col[CLOSE], span_alpha(periods[k])))))
         ELSE ema_loop(f, periods, k + 1, result)

calculate_ema(f, periods) == except_return_df(f, ema_loop(f, periods, 1, f))

\* mid + k * std, std kept as its square: the value is irrational in general
Band(mid, k, var) ==
    IF IsNaN(mid) \/ IsNaN(var) THEN NaN
    ELSE [n |-> mid.n, d |-> mid.d, k |-> k, var |-> var]

boll_body(f, period, std_multiplier) ==
    IF f.len >= period
    THEN IF ~HasCol(f, CLOSE) THEN Raised(f)
         ELSE LET mid == rolling_mean(f.col[CLOSE], period)
                  var == rolling_var(f.col[CLOSE], period)
                  r1 == SetCol(f, <<"BOLL_MID", 0>>, mid)
                  r2 == SetCol(r1, <<"BOLL_UPPER", 0>>,
                          [i \in 1..f.len |-> Band(mid[i], std_multiplier, var[i])])
                  r3 == SetCol(r2, <<"BOLL_LOWER", 0>>,
                          [i \in 1..f.len |-> Band(mid[i], -std_multiplier, var[i])])
              IN  Returned(r3)
    ELSE Returned(f)

calculate_boll(f, period, std_multiplier) ==
    except_return_df(f, boll_body(f, period, std_multiplier))

\* the RSI column of one period (lines 135-147)
rsi_series(close, period) ==
    LET delta == diff(close)
        gain == where_pos(delta, Num(0))
        loss == [i \in 1..Len(close) |-> Neg(where_neg(delta, Num(0))[i])]
        avg_gain == rolling_mean(gain, period)
        avg_loss == rolling_mean(loss, period)
    IN  [i \in 1..Len(close) |->
            LET rs == Div(avg_gain[i], avg_loss[i])
            IN  Sub(Num(100), Div(Num(100), Add(Num(1), rs)))]

RECURSIVE rsi_loop(_, _, _, _)
rsi_loop(f, periods, k, result) ==
    IF k > Len(periods) THEN Returned(result)
    ELSE IF f.len >= periods[k] + 1
         THEN (IF ~HasCol(f, CLOSE) THEN Raised(result)
               ELSE rsi_loop(f, periods, k + 1,
                        SetCol(result, <<"RSI", periods[k]>>,
                               rsi_series(f.col[CLOSE], periods[k]))))
         ELSE rsi_loop(f, periods, k + 1, result)

calculate_rsi(f, periods) == except_return_df(f, rsi_loop(f, periods, 1, f))

\* RSV (lines 182-184)
\* RSV with low_min taken from the "high" column
rsv_series_low_from_high(f, fastk_period) ==
    LET low_min == rolling_min(f.col[HIGH], fastk_period)
        high_max == rolling_max(f.col[HIGH], fastk_period)
    IN  [i \in 1..f.len |->
            Mul(Div(Sub(f.col[CLOSE][i], low_min[i]), Sub(high_max[i], low_min[i])),
                Num(100))]

rsv_series(f, fastk_period) ==
    LET low_min == rolling_min(f.col[LOW], fastk_period)
        high_max == rolling_max(f.col[HIGH], fastk_period)
    IN  [i \in 1..f.len |->
            Mul(Div(Sub(f.col[CLOSE][i], low_min[i]), Sub(high_max[i], low_min[i])),
                Num(100))]

kdj_body(f, fastk_period, slowk_period, slowd_period) ==
    IF f.len >= fastk_period
    THEN IF ~HasCol(f, LOW) \/ ~HasCol(f, HIGH) \/ ~HasCol(f, CLOSE) THEN Raised(f)
         ELSE LET rsv == rsv_series(f, fastk_period)
                  K == ewm_mean(rsv, Rat(1, slowk_period))
                  D == ewm_mean(K, Rat(1, slowd_period))
                  J == [i \in 1..f.len |-> Sub(Mul(Num(3), K[i]), Mul(Num(2), D[i]))]
              IN  Returned(SetCol(SetCol(SetCol(f, <<"K", 0>>, K), <<"D", 0>>, D),
                                  <<"J", 0>>, J))
    ELSE Returned(f)

calculate_kdj(f, fastk_period, slowk_period, slowd_period) ==
    except_return_df(f, kdj_body(f, fastk_period, slowk_period, slowd_period))

macd_body(f, fast_period, slow_period, signal_period) ==
    IF f.len >= slow_period
    THEN IF ~HasCol(f, CLOSE) THEN Raised(f)
         ELSE LET ema_fast == ewm_mean(f.col[CLOSE], span_alpha(fast_period))
                  ema_slow == ewm_mean(f.col[CLOSE], span_alpha(slow_period))
                  dif == [i \in 1..f.len |-> Sub(ema_fast[i], ema_slow[i])]
                  dea == ewm_mean(dif, span_alpha(signal_period))
                  hist == [i \in 1..f.len |-> Mul(Sub(dif[i], dea[i]), Num(2))]
              IN  Returned(SetCol(SetCol(SetCol(f, <<"MACD_DIF", 0>>, dif),
                                         <<"MACD_DEA", 0>>, dea),
                                  <<"MACD_HIST", 0>>, hist))
    ELSE Returned(f)

calculate_macd(f, fast_period, slow_period, signal_period) ==
    except_return_df(f, macd_body(f, fast_period, slow_period, signal_period))

RECURSIVE volume_ma_loop(_, _, _, _)
volume_ma_loop(f, periods, k, result) ==
    IF k > Len(periods) THEN Returned(result)
    ELSE IF f.len >= periods[k]
         THEN (IF ~HasCol(f, VOLUME) THEN Raised(result)
               ELSE volume_ma_loop(f, periods, k + 1,
                        SetCol(result, <<"VOL_MA", periods[k]>>,
                               rolling_mean(f.col[VOLUME], periods[k]))))
         ELSE volume_ma_loop(f, periods, k + 1, result)

calculate_volume_ma(f, periods) ==
    except_return_df(f, volume_ma_loop(f, periods, 1, f))

\* the loop of calculate_obv with "price_change >= 0" for the rising branch
RECURSIVE obv_loop_flat_adds(_, _, _, _, _)
obv_loop_flat_adds(price_change, volume, i, obv_value, obv) ==
    IF i > Len(volume) THEN obv
    ELSE LET v == IF i = 1 THEN volume[i]
                  ELSE IF Ge(price_change[i], Num(0)) THEN Add(obv_value, volume[i])
                  ELSE IF Lt(price_change[i], Num(0)) THEN Sub(obv_value, volume[i])
                  ELSE obv_value
         IN  obv_loop_flat_adds(price_change, volume, i + 1, v, Append(obv, v))

\* calculate_obv, the loop over the bars (lines 302-311)
RECURSIVE obv_loop(_, _, _, _, _)
obv_loop(price_change, volume, i, obv_value, obv) ==
    IF i > Len(volume) THEN obv
    ELSE LET v == IF i = 1 THEN volume[i]
                  ELSE IF Gt(price_change[i], Num(0)) THEN Add(obv_value, volume[i])
                  ELSE IF Lt(price_change[i], Num(0)) THEN Sub(obv_value, volume[i])
                  ELSE obv_value
         IN  obv_loop(price_change, volume, i + 1, v, Append(obv, v))

obv_body(f) ==
    IF f.len > 1
    THEN IF ~HasCol(f, CLOSE) \/ ~HasCol(f, VOLUME) THEN Raised(f)
         ELSE Returned(SetCol(f, <<"OBV", 0>>,
                         obv_loop(diff(f.col[CLOSE]), f.col[VOLUME], 1, Num(0), <<>>)))
    ELSE Returned(f)

calculate_obv(f) == except_return_df(f, obv_body(f))

(* The default parameters.  The source's defaults (MA 5..250, EMA 12/26,   *)
(* BOLL 20, RSI 6/12/24, KDJ 9/3/3, MACD 12/26/9, VOL_MA 5/10/20) need     *)
(* Series of hundreds of bars; the model keeps their structure (several    *)
(* periods per family, fast < slow) at a scale a bounded Series reaches.   *)
MA_PERIODS == <<2, 3>>
EMA_PERIODS == <<2, 3>>
BOLL_PERIOD == 3
BOLL_STD == 2
RSI_PERIODS == <<2, 3>>
KDJ_FASTK == 2
KDJ_SLOWK == 3
KDJ_SLOWD == 3
MACD_FAST == 2
MACD_SLOW == 3
MACD_SIGNAL == 2
VOL_MA_PERIODS == <<2, 3>>

calculate_all_indicators(f) ==
    LET r1 == calculate_ma(f, MA_PERIODS)
        r2 == calculate_ema(r1, EMA_PERIODS)
        r3 == calculate_boll(r2, BOLL_PERIOD, BOLL_STD)
        r4 == calculate_rsi(r3, RSI_PERIODS)
        r5 == calculate_kdj(r4, KDJ_FASTK, KDJ_SLOWK, KDJ_SLOWD)
        r6 == calculate_macd(r5, MACD_FAST, MACD_SLOW, MACD_SIGNAL)
        r7 == calculate_volume_ma(r6, VOL_MA_PERIODS)
        r8 == calculate_obv(r7)
    IN  r8

\* the k-th method of the chain of calculate_all_indicators
family(k, result) ==
    CASE k = 1 -> calculate_ma(result, MA_PERIODS)
      [] k = 2 -> calculate_ema(result, EMA_PERIODS)
      [] k = 3 -> calculate_boll(result, BOLL_PERIOD, BOLL_STD)
      [] k = 4 -> calculate_rsi(result, RSI_PERIODS)
      [] k = 5 -> calculate_kdj(result, KDJ_FASTK, KDJ_SLOWK, KDJ_SLOWD)
      [] k = 6 -> calculate_macd(result, MACD_FAST, MACD_SLOW, MACD_SIGNAL)
      [] k = 7 -> calculate_volume_ma(result, VOL_MA_PERIODS)
      [] k = 8 -> calculate_obv(result)

\* the chain keeping its intermediate frame in a field of the instance:
\* "self.result = self.calculate_x(self.result)"
family_step_shared(inst, k, result) ==
    LET held == IF k > 1 /\ "result" \in DOMAIN inst THEN inst["result"] ELSE result
        new == family(k, held)
    IN  [self |-> ("result" :> new), result |-> new]

\* one line of the chain, "result = self.calculate_x(result)", run by an
\* invocation whose local frame is result on the instance inst: it reads and
\* writes the local only
family_step(inst, k, result) == [self |-> inst, result |-> family(k, result)]

\* the number of methods in the chain
CHAIN == 8

-----------------------------------------------------------------------------
(* DataAnalyzer (src/src/analysis/analyzer.py).                            *)
(*                                                                         *)
(* A method returns a dict, an empty dict {} or (find_consecutive_days)    *)
(* None; the three are told apart by the field kind.  A date is the        *)
(* ordinal of its day (> 0); None in a date field is NoDate.               *)

PyNone == [kind |-> "None"]

EmptyDict == [kind |-> "empty"]

NoDate == 0

\* DataFrame.empty
IsEmpty(f) == f.len = 0 \/ Columns(f) = {}

-----------------------------------------------------------------------------
(* IndicatorCalculator.get_latest_signals (calculator.py lines 358-443),   *)
(* which returns a dict as the analyzer's methods do.                      *)

CHANGE == <<"change", 0>>

\* the characters of the text of a column name (the period, if any, follows)
Letters(text) ==
    CASE text = "MA" -> <<"M", "A">>
      [] text = "EMA" -> <<"E", "M", "A">>
      [] text = "RSI" -> <<"R", "S", "I">>
      [] text = "VOL_MA" -> <<"V", "O", "L", "_", "M", "A">>
      [] text = "MACD_DIF" -> <<"M", "A", "C", "D", "_", "D", "I", "F">>
      [] text = "MACD_DEA" -> <<"M", "A", "C", "D", "_", "D", "E", "A">>
      [] text = "MACD_HIST" -> <<"M", "A", "C", "D", "_", "H", "I", "S", "T">>
      [] text = "BOLL_MID" -> <<"B", "O", "L", "L", "_", "M", "I", "D">>
      [] text = "BOLL_UPPER" -> <<"B", "O", "L", "L", "_", "U", "P", "P", "E", "R">>
      [] text = "BOLL_LOWER" -> <<"B", "O", "L", "L", "_", "L", "O", "W", "E", "R">>
      [] text = "OBV" -> <<"O", "B", "V">>
      [] text = "K" -> <<"K">>
      [] text = "D" -> <<"D">>
      [] text = "J" -> <<"J">>
      [] text = "close" -> <<"c", "l", "o", "s", "e">>
      [] text = "high" -> <<"h", "i", "g", "h">>
      [] text = "low" -> <<"l", "o", "w">>
      [] text = "volume" -> <<"v", "o", "l", "u", "m", "e">>
      [] text = "change" -> <<"c", "h", "a", "n", "g", "e">>
      [] text = "pct_change" -> <<"p", "c", "t", "_", "c", "h", "a", "n", "g", "e">>
      [] text = "date" -> <<"d", "a", "t", "e">>

\* col.startswith(prefix), prefix given by its characters
startswith(c, prefix) ==
    /\ Len(Letters(c[1])) >= Len(prefix)
    /\ SubSeq(Letters(c[1]), 1, Len(prefix)) = prefix

\* row.get(c, default) on the row at position i
Get(f, c, i, default) == IF HasCol(f, c) THEN f.col[c][i] ELSE default

\* the columns that get a signal in a loop "for col in df.columns": the name
\* starts with prefix and the latest value is not NaN
signal_columns(f, prefix) ==
    {c \in Columns(f) : startswith(c, prefix) /\ NotNa(f.col[c][f.len])}

\* signals["macd"] with the crosses tested by "<" and ">" on the previous bar
macd_signal_strict(f) ==
    LET n == f.len
        dif == <<"MACD_DIF", 0>>
        dea == <<"MACD_DEA", 0>>
    IN  IF HasCol(f, dif) /\ HasCol(f, dea)
           /\ \A v \in {f.col[dif][n], f.col[dea][n], f.col[dif][n - 1], f.col[dea][n - 1]} :
                 NotNa(v)
        THEN [dif |-> f.col[dif][n],
              dea |-> f.col[dea][n],
              hist |-> Get(f, <<"MACD_HIST", 0>>, n, Num(0)),
              golden_cross |-> Lt(f.col[dif][n - 1], f.col[dea][n - 1])
                               /\ Gt(f.col[dif][n], f.col[dea][n]),
              death_cross |-> Gt(f.col[dif][n - 1], f.col[dea][n - 1])
                              /\ Lt(f.col[dif][n], f.col[dea][n])]
        ELSE <<>>

\* signals["macd"] (lines 398-411); <<>> is the empty dict it starts as
macd_signal(f) ==
    LET n == f.len
        dif == <<"MACD_DIF", 0>>
        dea == <<"MACD_DEA", 0>>
    IN  IF HasCol(f, dif) /\ HasCol(f, dea)
           /\ \A v \in {f.col[dif][n], f.col[dea][n], f.col[dif][n - 1], f.col[dea][n - 1]} :
                 NotNa(v)
        THEN [dif |-> f.col[dif][n],
              dea |-> f.col[dea][n],
              hist |-> Get(f, <<"MACD_HIST", 0>>, n, Num(0)),
              golden_cross |-> Le(f.col[dif][n - 1], f.col[dea][n - 1])
                               /\ Gt(f.col[dif][n], f.col[dea][n]),
              death_cross |-> Ge(f.col[dif][n - 1], f.col[dea][n - 1])
                              /\ Lt(f.col[dif][n], f.col[dea][n])]
        ELSE <<>>

\* signals["kdj"] with the thresholds included (">= 80", "<= 20")
kdj_signal_inclusive(f) ==
    LET n == f.len
    IN  IF (\A c \in {<<"K", 0>>, <<"D", 0>>, <<"J", 0>>} : HasCol(f, c) /\ NotNa(f.col[c][n]))
        THEN [k |-> f.col[<<"K", 0>>][n],
              d |-> f.col[<<"D", 0>>][n],
              j |-> f.col[<<"J", 0>>][n],
              overbought |-> Ge(f.col[<<"K", 0>>][n], Num(80))
                             /\ Ge(f.col[<<"D", 0>>][n], Num(80)),
              oversold |-> Le(f.col[<<"K", 0>>][n], Num(20))
                           /\ Le(f.col[<<"D", 0>>][n], Num(20))]
        ELSE <<>>

\* signals["kdj"] (lines 413-426)
kdj_signal(f) ==
    LET n == f.len
    IN  IF (\A c \in {<<"K", 0>>, <<"D", 0>>, <<"J", 0>>} : HasCol(f, c) /\ NotNa(f.col[c][n]))
        THEN [k |-> f.col[<<"K", 0>>][n],
              d |-> f.col[<<"D", 0>>][n],
              j |-> f.col[<<"J", 0>>][n],
              overbought |-> Gt(f.col[<<"K", 0>>][n], Num(80))
                             /\ Gt(f.col[<<"D", 0>>][n], Num(80)),
              oversold |-> Lt(f.col[<<"K", 0>>][n], Num(20))
                           /\ Lt(f.col[<<"D", 0>>][n], Num(20))]
        ELSE <<>>

\* get_latest_signals: {} for fewer than two bars and, through the except
\* path, for a frame without closes (latest["close"] raises KeyError)
get_latest_signals(f) ==
    IF IsEmpty(f) \/ f.len < 2 THEN EmptyDict
    ELSE IF ~HasCol(f, CLOSE) THEN EmptyDict
    ELSE LET n == f.len
             close == f.col[CLOSE][n]
             ma(c) == [value |-> f.col[c][n],
                       position |-> IF Gt(close, f.col[c][n]) THEN "above" ELSE "below"]
             rsi(c) == [value |-> f.col[c][n],
                        overbought |-> Gt(f.col[c][n], Num(70)),
                        oversold |-> Lt(f.col[c][n], Num(30))]
         IN  [kind |-> "dict",
              price |-> [current |-> close,
                         change |-> Get(f, CHANGE, n, Num(0)),
                         pct_change |-> Get(f, PCT_CHANGE, n, Num(0))],
              ma |-> [c \in signal_columns(f, <<"M", "A">>) |-> ma(c)],
              macd |-> macd_signal(f),
              kdj |-> kdj_signal(f),
              rsi |-> [c \in signal_columns(f, <<"R", "S", "I">>) |-> rsi(c)]]

-----------------------------------------------------------------------------
(* DataAnalyzer, the methods.                                              *)


\* the local variables of find_consecutive_days before the scan
streak_start ==
    [current_streak |-> 0, current_type |-> "None",
     max_up_streak |-> 0, max_up_start |-> NoDate, max_up_end |-> NoDate,
     max_down_streak |-> 0, max_down_start |-> NoDate, max_down_end |-> NoDate,
     temp_streak |-> 0, temp_start |-> NoDate]

\* the scan with "else: pass" on a flat day: the counter is not reset
streak_step_flat_ignored(st, i, n, pct, date) ==
    IF IsNaN(pct) \/ pct = Num(0) THEN st
    ELSE IF Gt(pct, Num(0))
    THEN LET t == IF st.temp_streak > 0 THEN st.temp_streak + 1 ELSE 1
             ts == IF st.temp_streak > 0 THEN st.temp_start ELSE date
             mx == t > st.max_up_streak
         IN  [st EXCEPT !.temp_streak = t, !.temp_start = ts,
                        !.max_up_streak = IF mx THEN t ELSE @,
                        !.max_up_start = IF mx THEN ts ELSE @,
                        !.max_up_end = IF mx THEN date ELSE @,
                        !.current_streak = IF i = n - 1 THEN t ELSE @,
                        !.current_type = IF i = n - 1 THEN "up" ELSE @]
    ELSE LET t == IF st.temp_streak < 0 THEN st.temp_streak - 1 ELSE -1
             ts == IF st.temp_streak < 0 THEN st.temp_start ELSE date
             mx == Abs(t) > st.max_down_streak
         IN  [st EXCEPT !.temp_streak = t, !.temp_start = ts,
                        !.max_down_streak = IF mx THEN Abs(t) ELSE @,
                        !.max_down_start = IF mx THEN ts ELSE @,
                        !.max_down_end = IF mx THEN date ELSE @,
                        !.current_streak = IF i = n - 1 THEN Abs(t) ELSE @,
                        !.current_type = IF i = n - 1 THEN "down" ELSE @]

\* the scan recording the open streak at every bar, not only at the last
streak_step_current_anywhere(st, i, n, pct, date) ==
    LET u == streak_step_flat_ignored(st, n - 1, n, pct, date)
    IN  IF pct = Num(0) THEN [st EXCEPT !.temp_streak = 0] ELSE u

\* the scan replacing the recorded maximum by a later run of equal length
\* (>= where the source has >)
streak_step_latest_max(st, i, n, pct, date) ==
    IF IsNaN(pct) THEN st
    ELSE IF Gt(pct, Num(0))
    THEN LET t == IF st.temp_streak > 0 THEN st.temp_streak + 1 ELSE 1
             ts == IF st.temp_streak > 0 THEN st.temp_start ELSE date
             mx == t >= st.max_up_streak
         IN  [st EXCEPT !.temp_streak = t, !.temp_start = ts,
                        !.max_up_streak = IF mx THEN t ELSE @,
                        !.max_up_start = IF mx THEN ts ELSE @,
                        !.max_up_end = IF mx THEN date ELSE @,
                        !.current_streak = IF i = n - 1 THEN t ELSE @,
                        !.current_type = IF i = n - 1 THEN "up" ELSE @]
    ELSE IF Lt(pct, Num(0))
    THEN LET t == IF st.temp_streak < 0 THEN st.temp_streak - 1 ELSE -1
             ts == IF st.temp_streak < 0 THEN st.temp_start ELSE date
             mx == Abs(t) >= st.max_down_streak
         IN  [st EXCEPT !.temp_streak = t, !.temp_start = ts,
                        !.max_down_streak = IF mx THEN Abs(t) ELSE @,
                        !.max_down_start = IF mx THEN ts ELSE @,
                        !.max_down_end = IF mx THEN date ELSE @,
                        !.current_streak = IF i = n - 1 THEN Abs(t) ELSE @,
                        !.current_type = IF i = n - 1 THEN "down" ELSE @]
    ELSE [st EXCEPT !.temp_streak = 0]

\* one iteration of "for i, row in df.iterrows()" (lines 145-184): i is the
\* index label of the row (its 0-based position), n is len(df)
streak_step(st, i, n, pct, date) ==
    IF IsNaN(pct) THEN st
    ELSE IF Gt(pct, Num(0))
    THEN LET t == IF st.temp_streak > 0 THEN st.temp_streak + 1 ELSE 1
             ts == IF st.temp_streak > 0 THEN st.temp_start ELSE date
             mx == t > st.max_up_streak
         IN  [st EXCEPT !.temp_streak = t, !.temp_start = ts,
                        !.max_up_streak = IF mx THEN t ELSE @,
                        !.max_up_start = IF mx THEN ts ELSE @,
                        !.max_up_end = IF mx THEN date ELSE @,
                        !.current_streak = IF i = n - 1 THEN t ELSE @,
                        !.current_type = IF i = n - 1 THEN "up" ELSE @]
    ELSE IF Lt(pct, Num(0))
    THEN LET t == IF st.temp_streak < 0 THEN st.temp_streak - 1 ELSE -1
             ts == IF st.temp_streak < 0 THEN st.temp_start ELSE date
             mx == Abs(t) > st.max_down_streak
         IN  [st EXCEPT !.temp_streak = t, !.temp_start = ts,
                        !.max_down_streak = IF mx THEN Abs(t) ELSE @,
                        !.max_down_start = IF mx THEN ts ELSE @,
                        !.max_down_end = IF mx THEN date ELSE @,
                        !.current_streak = IF i = n - 1 THEN Abs(t) ELSE @,
                        !.current_type = IF i = n - 1 THEN "down" ELSE @]
    ELSE [st EXCEPT !.temp_streak = 0]

\* the whole scan; row.get("date") is None when the frame has no date column
RECURSIVE streak_scan(_, _, _)
streak_scan(f, k, st) ==
    IF k > f.len THEN st
    ELSE streak_scan(f, k + 1,
             streak_step(st, k - 1, f.len, f.col[PCT_CHANGE][k],
                         IF HasCol(f, DATE) THEN f.col[DATE][k] ELSE NoDate))

find_consecutive_days(f) ==
    IF IsEmpty(f) \/ ~HasCol(f, PCT_CHANGE) THEN PyNone
    ELSE LET st == streak_scan(f, 1, streak_start)
         IN  [kind |-> "dict",
              current |-> [type |-> st.current_type, days |-> st.current_streak],
              max_up |-> [days |-> st.max_up_streak, start |-> st.max_up_start,
                          end |-> st.max_up_end],
              max_down |-> [days |-> st.max_down_streak, start |-> st.max_down_start,
                            end |-> st.max_down_end]]

\* the positions of s that hold a number (skipna=True)
Valid(s) == {i \in 1..Len(s) : NotNa(s[i])}

\* Series.sum() / .mean() / .max() / .min(), NaN skipped
series_sum(s) == SumOver(s, Valid(s))

series_mean(s) == IF Valid(s) = {} THEN NaN ELSE Div(SumOver(s, Valid(s)), Num(Cardinality(Valid(s))))

series_max(s) ==
    IF Valid(s) = {} THEN NaN
    ELSE s[CHOOSE i \in Valid(s) : \A j \in Valid(s) : Ge(s[i], s[j])]

series_min(s) ==
    IF Valid(s) = {} THEN NaN
    ELSE s[CHOOSE i \in Valid(s) : \A j \in Valid(s) : Le(s[i], s[j])]

\* the square of Series.std() (ddof = 1, NaN skipped): NaN below two values
series_var(s) ==
    LET n == Cardinality(Valid(s))
        mean == series_mean(s)
        dev2 == [j \in 1..Len(s) |-> Mul(Sub(s[j], mean), Sub(s[j], mean))]
    IN  IF n > 1 THEN Div(SumOver(dev2, Valid(s)), Num(n - 1)) ELSE NaN

\* a standard deviation, kept as its square (the root is irrational in general)
Sqrt(var) == [sqrt |-> var]

\* pd.merge(df1[["date", "close"]], df2[["date", "close"]], on="date") pairing
\* the rows by their position instead of their date
RECURSIVE merge_by_position(_, _, _, _)
merge_by_position(f1, f2, i, merged) ==
    IF i > f1.len \/ i > f2.len THEN merged
    ELSE merge_by_position(f1, f2, i + 1,
                           Append(merged, <<f1.col[CLOSE][i], f2.col[CLOSE][i]>>))

\* pd.merge(df1[["date", "close"]], df2[["date", "close"]], on="date"): the
\* inner join, <<close_1, close_2>> for every pair of rows with one date, in
\* the order of df1; i is the row of df1 being joined
RECURSIVE merge_on_date(_, _, _, _)
merge_on_date(f1, f2, i, merged) ==
    IF i > f1.len THEN merged
    ELSE LET same == {j \in 1..f2.len : f2.col[DATE][j] = f1.col[DATE][i]}
             rows == [k \in 1..Cardinality(same) |->
                         LET j == CHOOSE j \in same :
                                      Cardinality({m \in same : m < j}) = k - 1
                         IN  <<f1.col[CLOSE][i], f2.col[CLOSE][j]>>]
         IN  merge_on_date(f1, f2, i + 1, merged \o rows)

\* Series.corr (Pearson) of the two columns of merged, at least two rows of
\* numbers: cov / sqrt(var_1 * var_2), NaN when a variance is 0 (0/0).  The
\* root is irrational in general; the value is kept as its sign and square
\* unless it is -1, 0 or 1.
corr(merged) ==
    LET n == Num(Len(merged))
        I == 1..Len(merged)
        x == [i \in I |-> merged[i][1]]
        y == [i \in I |-> merged[i][2]]
        prod(a, b) == [i \in I |-> Mul(a[i], b[i])]
        co(a, b) == Sub(Mul(n, SumOver(prod(a, b), I)), Mul(SumOver(a, I), SumOver(b, I)))
        square == Div(Mul(co(x, y), co(x, y)), Mul(co(x, x), co(y, y)))
    IN  IF co(x, x) = Num(0) \/ co(y, y) = Num(0) THEN NaN
        ELSE IF square \in {Num(0), Num(1)} THEN Num(Sgn(co(x, y).n))
        ELSE [sign |-> Sgn(co(x, y).n), sqrt |-> square]

\* calculate_correlation; a frame without date or close raises KeyError in
\* the column selection, which the except path turns into 0.0
calculate_correlation(df1, df2) ==
    IF IsEmpty(df1) \/ IsEmpty(df2) THEN Num(0)
    ELSE IF \E c \in {DATE, CLOSE} : ~HasCol(df1, c) \/ ~HasCol(df2, c) THEN Num(0)
    ELSE LET merged == merge_on_date(df1, df2, 1, <<>>)
         IN  IF Len(merged) < 2 THEN Num(0) ELSE corr(merged)

\* df["date"].min() / .max() on the day ordinals
series_min_date(dates) == CHOOSE d \in Range(dates) : \A e \in Range(dates) : d <= e

series_max_date(dates) == CHOOSE d \in Range(dates) : \A e \in Range(dates) : d >= e

\* the number of rows with pct_change > 0 / < 0
up_days(s) == Cardinality({i \in 1..Len(s) : Gt(s[i], Num(0))})

down_days(s) == Cardinality({i \in 1..Len(s) : Lt(s[i], Num(0))})

calculate_statistics(f) ==
    IF IsEmpty(f) THEN EmptyDict
    ELSE IF ~HasCol(f, CLOSE) \/ ~HasCol(f, HIGH) \/ ~HasCol(f, LOW) THEN EmptyDict
    ELSE LET close == f.col[CLOSE]
             hasPct == HasCol(f, PCT_CHANGE)
             hasVol == HasCol(f, VOLUME)
             change ==
                 [total |-> Sub(close[f.len], close[1]),
                  total_pct |-> Mul(Sub(Div(close[f.len], close[1]), Num(1)), Num(100)),
                  avg_daily |-> IF hasPct THEN series_mean(f.col[PCT_CHANGE]) ELSE Num(0),
                  max_gain |-> IF hasPct THEN series_max(f.col[PCT_CHANGE]) ELSE Num(0),
                  max_loss |-> IF hasPct THEN series_min(f.col[PCT_CHANGE]) ELSE Num(0)]
             days ==
                 IF hasPct
                 THEN [up_days |-> up_days(f.col[PCT_CHANGE]),
                       down_days |-> down_days(f.col[PCT_CHANGE]),
                       up_ratio |-> Rat(up_days(f.col[PCT_CHANGE]), f.len)]
                 ELSE <<>>
         IN  [kind |-> "dict",
              total_records |-> f.len,
              date_range |->
                  [start |-> IF HasCol(f, DATE) THEN series_min_date(f.col[DATE]) ELSE NoDate,
                   end |-> IF HasCol(f, DATE) THEN series_max_date(f.col[DATE]) ELSE NoDate],
              price |->
                  [current |-> close[f.len],
                   max |-> series_max(f.col[HIGH]),
                   min |-> series_min(f.col[LOW]),
                   avg |-> series_mean(close),
                   std |-> Sqrt(series_var(close))],
              change |-> change @@ days,
              volume |->
                  [total |-> IF hasVol THEN series_sum(f.col[VOLUME]) ELSE Num(0),
                   avg |-> IF hasVol THEN series_mean(f.col[VOLUME]) ELSE Num(0),
                   max |-> IF hasVol THEN series_max(f.col[VOLUME]) ELSE Num(0)]]

\* a volatility std(returns) * sqrt(252) * 100, kept as the variance of the
\* returns it is the scaled root of
Vol(var) == [annualized_sqrt |-> var]

\* the mean of the volatilities that are defined, kept as their list
MeanVol(variances) ==
    IF Valid(variances) = {} THEN NaN
    ELSE [mean_of |-> [k \in 1..Cardinality(Valid(variances)) |->
                          Vol(variances[CHOOSE i \in Valid(variances) :
                                     Cardinality({j \in Valid(variances) : j < i}) = k - 1])]]

calculate_volatility(f, window) ==
    IF IsEmpty(f) \/ f.len < window THEN EmptyDict
    ELSE IF ~HasCol(f, CLOSE) THEN EmptyDict
    ELSE LET returns == pct_change(f.col[CLOSE])
             rolling == rolling_var(returns, window)
         IN  [kind |-> "dict",
              historical |-> Vol(series_var(returns)),
              current |-> Vol(rolling[f.len]),
              max |-> Vol(series_max(rolling)),
              min |-> Vol(series_min(rolling)),
              avg |-> MeanVol(rolling)]

\* sorted(levels): ascending, stable
RECURSIVE sorted(_)
sorted(levels) ==
    IF levels = <<>> THEN <<>>
    ELSE LET k == CHOOSE i \in 1..Len(levels) :
                      /\ \A j \in 1..Len(levels) : Le(levels[i], levels[j])
                      /\ \A j \in 1..(i - 1) : levels[j] # levels[i]
             rest == [j \in 1..(Len(levels) - 1) |-> IF j < k THEN levels[j] ELSE levels[j + 1]]
         IN  <<levels[k]>> \o sorted(rest)

Reverse(s) == [i \in 1..Len(s) |-> s[Len(s) + 1 - i]]

\* sorted(levels) taken where sorted(levels, reverse=True) is meant
sorted_ascending(levels) == sorted(levels)

\* sorted(levels, reverse=True)
sorted_reverse(levels) == Reverse(sorted(levels))

\* np.mean(current_cluster)
np_mean(cluster) == Div(SumOver(cluster, 1..Len(cluster)), Num(Len(cluster)))

\* the loop of cluster_levels comparing the absolute distance
\* level - current_cluster[-1] with the tolerance
RECURSIVE cluster_loop_absolute(_, _, _, _, _)
cluster_loop_absolute(levels, tolerance, k, clusters, current_cluster) ==
    IF k > Len(levels) THEN Append(clusters, np_mean(current_cluster))
    ELSE LET last == current_cluster[Len(current_cluster)]
         IN  IF Lt(Sub(levels[k], last), tolerance)
             THEN cluster_loop_absolute(levels, tolerance, k + 1, clusters,
                                        Append(current_cluster, levels[k]))
             ELSE cluster_loop_absolute(levels, tolerance, k + 1,
                                        Append(clusters, np_mean(current_cluster)),
                                        <<levels[k]>>)

\* the loop of cluster_levels with <= tolerance
RECURSIVE cluster_loop_inclusive(_, _, _, _, _)
cluster_loop_inclusive(levels, tolerance, k, clusters, current_cluster) ==
    IF k > Len(levels) THEN Append(clusters, np_mean(current_cluster))
    ELSE LET last == current_cluster[Len(current_cluster)]
         IN  IF Le(Div(Sub(levels[k], last), last), tolerance)
             THEN cluster_loop_inclusive(levels, tolerance, k + 1, clusters,
                                         Append(current_cluster, levels[k]))
             ELSE cluster_loop_inclusive(levels, tolerance, k + 1,
                                         Append(clusters, np_mean(current_cluster)),
                                         <<levels[k]>>)

\* cluster_levels, the loop over levels[1:] (lines 339-346)
RECURSIVE cluster_loop(_, _, _, _, _)
cluster_loop(levels, tolerance, k, clusters, current_cluster) ==
    IF k > Len(levels) THEN Append(clusters, np_mean(current_cluster))
    ELSE LET last == current_cluster[Len(current_cluster)]
         IN  IF Lt(Div(Sub(levels[k], last), last), tolerance)
             THEN cluster_loop(levels, tolerance, k + 1, clusters,
                               Append(current_cluster, levels[k]))
             ELSE cluster_loop(levels, tolerance, k + 1,
                               Append(clusters, np_mean(current_cluster)), <<levels[k]>>)

cluster_levels(levels, tolerance) ==
    IF levels = <<>> THEN <<>>
    ELSE cluster_loop(sorted(levels), tolerance, 2, <<>>, <<sorted(levels)[1]>>)

\* tolerance=0.02
TOLERANCE == Rat(2, 100)

\* the local highs taken over iloc[i-window : i+window], the slice that
\* leaves out the bar window after i
RECURSIVE local_extrema_half_open(_, _, _, _, _)
local_extrema_half_open(s, window, i, is_max, found) ==
    IF i > Len(s) - window THEN found
    ELSE LET around == {s[j] : j \in (i - window)..(i + window - 1)}
             extreme == IF is_max THEN \A v \in around : Le(v, s[i])
                        ELSE \A v \in around : Ge(v, s[i])
         IN  local_extrema_half_open(s, window, i + 1, is_max,
                                     IF extreme THEN Append(found, s[i]) ELSE found)

\* the local highs (lines 321-324): bar i with window bars on either side
\* whose high is the largest of iloc[i-window : i+window+1]
RECURSIVE local_extrema(_, _, _, _, _)
local_extrema(s, window, i, is_max, found) ==
    IF i > Len(s) - window THEN found
    ELSE LET around == {s[j] : j \in (i - window)..(i + window)}
             extreme == IF is_max THEN \A v \in around : Le(v, s[i])
                        ELSE \A v \in around : Ge(v, s[i])
         IN  local_extrema(s, window, i + 1, is_max,
                           IF extreme THEN Append(found, s[i]) ELSE found)

\* levels[:num_levels]
Take(levels, num_levels) ==
    [i \in 1..(IF Len(levels) < num_levels THEN Len(levels) ELSE num_levels) |-> levels[i]]

NoLevels == [kind |-> "dict", support |-> <<>>, resistance |-> <<>>]

detect_support_resistance(f, window, num_levels) ==
    IF IsEmpty(f) \/ f.len < window THEN NoLevels
    ELSE IF f.len - window <= window THEN NoLevels   \* the loop body never runs
    ELSE IF ~HasCol(f, HIGH) \/ ~HasCol(f, LOW) THEN NoLevels   \* KeyError, line 361
    ELSE LET highs == local_extrema(f.col[HIGH], window, window + 1, TRUE, <<>>)
             lows == local_extrema(f.col[LOW], window, window + 1, FALSE, <<>>)
         IN  [kind |-> "dict",
              resistance |->
                  Take(sorted_reverse(cluster_levels(highs, TOLERANCE)), num_levels),
              support |->
                  Take(sorted_reverse(cluster_levels(lows, TOLERANCE)), num_levels)]

\* the four counters of analyze_volume_price (lines 392-406)
volume_price_patterns(price_change, volume_change) ==
    LET rows == 1..Len(price_change)
        both(ps, vs) ==
            Cardinality({i \in rows :
                /\ NotNa(price_change[i]) /\ NotNa(volume_change[i])
                /\ Sgn(price_change[i].n) = ps /\ Sgn(volume_change[i].n) = vs})
    IN  [price_up_volume_up |-> both(1, 1),
         price_up_volume_down |-> both(1, -1),
         price_down_volume_up |-> both(-1, 1),
         price_down_volume_down |-> both(-1, -1)]

\* x > avg + k * std, std given by its square var (false when std is NaN)
AboveBand(x, avg, k, var) ==
    /\ NotNa(var)
    /\ Gt(Sub(x, avg), Num(0))
    /\ Gt(Mul(Sub(x, avg), Sub(x, avg)), Mul(Num(k * k), var))

\* x < avg - k * std
BelowBand(x, avg, k, var) ==
    /\ NotNa(var)
    /\ Lt(Sub(x, avg), Num(0))
    /\ Gt(Mul(Sub(x, avg), Sub(x, avg)), Mul(Num(k * k), var))

volume_status(latest_volume, avg_volume, var_volume) ==
    IF AboveBand(latest_volume, avg_volume, 2, var_volume) THEN "extremely_high"
    ELSE IF AboveBand(latest_volume, avg_volume, 1, var_volume) THEN "high"
    ELSE IF BelowBand(latest_volume, avg_volume, 1, var_volume) THEN "low"
    ELSE "normal"

analyze_volume_price(f) ==
    IF IsEmpty(f) \/ ~HasCol(f, VOLUME) THEN EmptyDict
    ELSE IF ~HasCol(f, CLOSE) THEN EmptyDict
    ELSE LET volume == f.col[VOLUME]
             avg_volume == series_mean(volume)
             latest_volume == volume[f.len]
         IN  [kind |-> "dict",
              patterns |-> volume_price_patterns(pct_change(f.col[CLOSE]), pct_change(volume)),
              volume_status |-> volume_status(latest_volume, avg_volume, series_var(volume)),
              latest_volume |-> latest_volume,
              avg_volume |-> avg_volume,
              volume_ratio |-> IF Gt(avg_volume, Num(0)) THEN Div(latest_volume, avg_volume)
                               ELSE Num(0)]

\* one value of comparison (lines 230-237)
comparison_entry(f) ==
    LET close == f.col[CLOSE]
    IN  [current |-> close[f.len],
         change |-> Sub(close[f.len], close[1]),
         pct_change |-> Mul(Sub(Div(close[f.len], close[1]), Num(1)), Num(100)),
         high |-> series_max(f.col[HIGH]),
         low |-> series_min(f.col[LOW]),
         avg_volume |-> IF HasCol(f, VOLUME) THEN series_mean(f.col[VOLUME]) ELSE Num(0)]

\* the loop over data_dict.items() (lines 226-237): the items of comparison
\* in insertion order, empty frames skipped.  A dict's keys are distinct and
\* keep their insertion order, so a symbol is its position in data_dict.
RECURSIVE comparison_items(_, _, _)
comparison_items(data_dict, k, comparison) ==
    IF k > Len(data_dict) THEN comparison
    ELSE IF IsEmpty(data_dict[k]) THEN comparison_items(data_dict, k + 1, comparison)
    ELSE comparison_items(data_dict, k + 1,
             Append(comparison, [symbol |-> k] @@ comparison_entry(data_dict[k])))

\* sorted(..., reverse=True) done as an ascending sort that is then reversed,
\* which turns the order of equal keys around
RECURSIVE sorted_by_change_reversed(_)
sorted_by_change_reversed(items) ==
    IF items = <<>> THEN <<>>
    ELSE LET k == CHOOSE i \in 1..Len(items) :
                      /\ \A j \in 1..Len(items) : Ge(items[i].pct_change, items[j].pct_change)
                      /\ \A j \in (i + 1)..Len(items) : items[j].pct_change # items[i].pct_change
             rest == [j \in 1..(Len(items) - 1) |-> IF j < k THEN items[j] ELSE items[j + 1]]
         IN  <<items[k]>> \o sorted_by_change_reversed(rest)

\* sorted(comparison.items(), key=lambda x: x[1]["pct_change"], reverse=True):
\* descending and stable, items with equal keys keep their order
RECURSIVE sorted_by_change(_)
sorted_by_change(items) ==
    IF items = <<>> THEN <<>>
    ELSE LET k == CHOOSE i \in 1..Len(items) :
                      /\ \A j \in 1..Len(items) : Ge(items[i].pct_change, items[j].pct_change)
                      /\ \A j \in 1..(i - 1) : items[j].pct_change # items[i].pct_change
             rest == [j \in 1..(Len(items) - 1) |-> IF j < k THEN items[j] ELSE items[j + 1]]
         IN  <<items[k]>> \o sorted_by_change(rest)

compare_indices(data_dict) ==
    IF data_dict = <<>> THEN EmptyDict
    ELSE IF \E k \in 1..Len(data_dict) :
               /\ ~IsEmpty(data_dict[k])
               /\ {CLOSE, HIGH, LOW} \ Columns(data_dict[k]) # {}
         THEN EmptyDict   \* KeyError, line 256
    ELSE LET comparison == comparison_items(data_dict, 1, <<>>)
         IN  [kind |-> "dict",
              comparison |-> comparison,
              ranking |-> [by_change |-> sorted_by_change(comparison)]]

(* The defaults generate_summary runs with.  The source's windows (20      *)
(* bars for the rolling volatility and for the local extrema) are scaled   *)
(* to what a bounded Series reaches.                                       *)
VOLATILITY_WINDOW == 2
SR_WINDOW == 1
SR_NUM_LEVELS == 3

\* datetime.now().strftime(...): the wall clock is not part of the model
GeneratedAt == "now"

generate_summary(f, indicators) ==
    [kind |-> "dict",
     statistics |-> calculate_statistics(f),
     volatility |-> calculate_volatility(f, VOLATILITY_WINDOW),
     consecutive_days |-> find_consecutive_days(f),
     support_resistance |-> detect_support_resistance(f, SR_WINDOW, SR_NUM_LEVELS),
     volume_price |-> analyze_volume_price(f),
     indicators |-> indicators,
     generated_at |-> GeneratedAt]

-----------------------------------------------------------------------------
(* Inputs.  A Series arrives from a fetcher after reset_index(drop=True)   *)
(* (src/src/data_fetcher/akshare_fetcher.py:153), so its index is          *)
(* 0..n-1, and its prices are positive.                                    *)

\* day-over-day moves of a close
Steps == {-1, 0, 1}

\* the closes that start at c0 and move by the given steps
Walk(c0, steps) ==
    [i \in 1..(Len(steps) + 1) |->
        c0 + SumOver([j \in 1..Len(steps) |-> Num(steps[j])], 1..(i - 1)).n]

\* the Series of at most MaxLen positive closes
CloseSeqs ==
    {<<>>} \cup
    {w \in {Walk(c0, st) : c0 \in 1..MaxPrice,
                           st \in UNION {[1..n -> Steps] : n \in 0..(MaxLen - 1)}} :
        \A i \in 1..Len(w) : w[i] > 0}

NumSeq(w) == [i \in 1..Len(w) |-> Num(w[i])]

CloseFrames == {Frame(Len(w), CLOSE :> NumSeq(w)) : w \in CloseSeqs}

-----------------------------------------------------------------------------
(* Specification Spec: the close-based indicators called one at a time on  *)
(* a Series of closes.  The calculator keeps no state between calls, so a  *)
(* behaviour is one call on one drawn Series.                              *)

Init ==
    /\ df \in CloseFrames
    /\ op = "none"
    /\ arg = <<>>
    /\ out = EmptyFrame
    /\ self = NoFields
    /\ tasks = <<>>

CalcMA(p) ==
    /\ op = "none"
    /\ op' = "calculate_ma"
    /\ arg' = <<p>>
    /\ out' = calculate_ma(df, <<p>>)
    /\ UNCHANGED <<df, self, tasks>>

CalcEMA(p) ==
    /\ op = "none"
    /\ op' = "calculate_ema"
    /\ arg' = <<p>>
    /\ out' = calculate_ema(df, <<p>>)
    /\ UNCHANGED <<df, self, tasks>>

CalcRSI(p) ==
    /\ op = "none"
    /\ op' = "calculate_rsi"
    /\ arg' = <<p>>
    /\ out' = calculate_rsi(df, <<p>>)
    /\ UNCHANGED <<df, self, tasks>>

CalcMACD(fast, slow, signal) ==
    /\ op = "none"
    /\ fast < slow
    /\ op' = "calculate_macd"
    /\ arg' = <<fast, slow, signal>>
    /\ out' = calculate_macd(df, fast, slow, signal)
    /\ UNCHANGED <<df, self, tasks>>

Next ==
    \/ \E p \in 1..MaxPeriod : CalcMA(p)
    \/ \E p \in 1..MaxPeriod : CalcEMA(p)
    \/ \E p \in 1..MaxPeriod : CalcRSI(p)
    \/ \E fast, slow, signal \in 1..MaxPeriod : CalcMACD(fast, slow, signal)

Spec == Init /\ [][Next]_vars

-----------------------------------------------------------------------------
(* Properties of the close-based indicators (checked under Spec).          *)

\* s[lo] + ... + s[hi]
RECURSIVE SeqSum(_, _, _)
SeqSum(s, lo, hi) == IF lo > hi THEN Num(0) ELSE Add(s[lo], SeqSum(s, lo + 1, hi))

Closes == df.col[CLOSE]

\* C5: for every period p and every Series with at least p bars, MA(p)[i] is
\* the arithmetic mean of closes[i-p+1..i] for every i >= p-1 and the undefined
\* marker (never 0) for every i < p-1.
C5_MAIsWindowMean ==
    (op = "calculate_ma" /\ df.len >= arg[1]) =>
        LET p == arg[1]
        IN  /\ HasCol(out, <<"MA", p>>)
            /\ out.len = df.len
            /\ \A i \in 1..df.len :
                 out.col[<<"MA", p>>][i] =
                     IF i >= p THEN Div(SeqSum(Closes, i - p + 1, i), Num(p)) ELSE NaN

\* closes [1,2,3,4,5] with p = 3 give [_, _, 2, 3, 4]
C5_Witness ==
    /\ op = "calculate_ma"
    /\ arg = <<3>>
    /\ df.len = 5
    /\ Closes = NumSeq(<<1, 2, 3, 4, 5>>)
    /\ out.col[<<"MA", 3>>] = <<NaN, NaN, Num(2), Num(3), Num(4)>>

\* v lies between a and b inclusive
Between(v, a, b) == (Le(a, v) /\ Le(v, b)) \/ (Le(b, v) /\ Le(v, a))

\* C6: EMA is the seeded recursion EMA[0] = close[0],
\* EMA[i+1] = a*close[i+1] + (1-a)*EMA[i] with a = 2/(span+1), and EMA[i+1]
\* lies between close[i+1] and EMA[i] inclusive.
C6_EMARecursion ==
    (op = "calculate_ema" /\ df.len >= arg[1]) =>
        LET span == arg[1]
            a == Rat(2, span + 1)
            e == out.col[<<"EMA", span>>]
        IN  /\ HasCol(out, <<"EMA", span>>)
            /\ e[1] = Closes[1]
            /\ \A i \in 1..(df.len - 1) :
                 /\ e[i + 1] = Add(Mul(a, Closes[i + 1]), Mul(Sub(Num(1), a), e[i]))
                 /\ Between(e[i + 1], Closes[i + 1], e[i])

\* an EMA that moved strictly between the new close and the previous EMA
C6_Witness ==
    /\ op = "calculate_ema"
    /\ arg = <<2>>
    /\ df.len >= 3
    /\ HasCol(out, <<"EMA", 2>>)
    /\ \E i \in 1..(df.len - 1) :
         /\ Lt(out.col[<<"EMA", 2>>][i], out.col[<<"EMA", 2>>][i + 1])
         /\ Lt(out.col[<<"EMA", 2>>][i + 1], Closes[i + 1])

MACDColumns == {<<"MACD_DIF", 0>>, <<"MACD_DEA", 0>>, <<"MACD_HIST", 0>>}

\* every position of column c of the result holds a finite number
DefinedEverywhere(c) ==
    /\ HasCol(out, c)
    /\ \A i \in 1..df.len : IsFin(out.col[c][i])

\* C7 as stated: EMA(span) and the MACD lines are defined at every index from
\* 0 for every non-empty Series, whatever the relation between its length and
\* the span / slow period.
C7_DefinedForEverySeries ==
    /\ (op = "calculate_ema" /\ df.len >= 1) => DefinedEverywhere(<<"EMA", arg[1]>>)
    /\ (op = "calculate_macd" /\ df.len >= 1) => \A c \in MACDColumns : DefinedEverywhere(c)

\* C7 amended: EMA(span) is defined at every index from 0 for every Series
\* with at least span bars, and the MACD lines for every Series with at least
\* slow_period bars; a shorter Series is returned without the indicator.
C7_DefinedWhenLongEnough ==
    /\ op = "calculate_ema" =>
         IF df.len >= arg[1] THEN DefinedEverywhere(<<"EMA", arg[1]>>) ELSE out = df
    /\ op = "calculate_macd" =>
         IF df.len >= arg[2] THEN \A c \in MACDColumns : DefinedEverywhere(c) ELSE out = df

\* a non-empty Series shorter than the span, returned without an EMA column
C7_Witness ==
    /\ op = "calculate_ema"
    /\ df.len >= 1
    /\ df.len < arg[1]
    /\ ~HasCol(out, <<"EMA", arg[1]>>)

\* the close-to-close delta that ends at position j (j >= 2)
Delta(j) == Sub(Closes[j], Closes[j - 1])

\* the sum of the gains (sign = 1) or of the losses (sign = -1) among the
\* deltas ending at positions lo..hi
RECURSIVE MoveSum(_, _, _)
MoveSum(sign, lo, hi) ==
    IF lo > hi THEN Num(0)
    ELSE Add(IF Sgn(Delta(lo).n) = sign THEN Num(Abs(Delta(lo).n)) ELSE Num(0),
             MoveSum(sign, lo + 1, hi))

\* RSI over the p real deltas ending at position i (i - p + 1 >= 2)
RsiOfDeltas(i, p) ==
    LET rs == Div(Div(MoveSum(1, i - p + 1, i), Num(p)), Div(MoveSum(-1, i - p + 1, i), Num(p)))
    IN  Sub(Num(100), Div(Num(100), Add(Num(1), rs)))

\* C8: for every period p and every Series with more than p bars, RSI(p)[i] is
\* undefined for every index i < p, and for i >= p it is computed only from the
\* p real close-to-close deltas ending at i.
C8_RSIUsesRealDeltas ==
    (op = "calculate_rsi" /\ df.len > arg[1]) =>
        LET p == arg[1]
            rsi == out.col[<<"RSI", p>>]
        IN  /\ HasCol(out, <<"RSI", p>>)
            /\ \A i \in 1..df.len :
                 IF i <= p THEN IsNaN(rsi[i]) ELSE rsi[i] = RsiOfDeltas(i, p)

\* C9: whenever the rolling mean loss over an RSI window is exactly 0,
\* including a window in which every delta is 0, RSI(p) at that index is the
\* defined value 100, never NaN or infinite.
C9_ZeroLossIs100 ==
    (op = "calculate_rsi" /\ df.len > arg[1]) =>
        LET p == arg[1]
            rsi == out.col[<<"RSI", p>>]
        IN  \A i \in (p + 1)..df.len :
                MoveSum(-1, i - p + 1, i) = Num(0) => rsi[i] = Num(100)

-----------------------------------------------------------------------------
(* Specification SpecStreak: find_consecutive_days on a Series of daily    *)
(* returns.  pct_change is undefined on the first bar when the fetcher     *)
(* computed it (akshare_fetcher.py:149) and defined when the data source   *)
(* supplied it (efinance_fetcher.py:164); only its sign is read.           *)

PctValues == {Num(-1), Num(0), Num(1)}

PctSeqs ==
    {<<>>} \cup
    UNION {{<<first>> \o NumSeq(rest) :
               first \in PctValues \cup {NaN}, rest \in [1..(n - 1) -> {-1, 0, 1}]} :
           n \in 1..MaxDays}

\* the date of the k-th bar is day k
DateSeq(n) == [k \in 1..n |-> k]

StreakFrames ==
    {Frame(Len(s), (PCT_CHANGE :> s) @@ (DATE :> DateSeq(Len(s)))) : s \in PctSeqs}
    \cup {Frame(n, DATE :> DateSeq(n)) : n \in 1..MaxDays}

InitStreak ==
    /\ df \in StreakFrames
    /\ op = "none"
    /\ arg = <<>>
    /\ out = EmptyDict
    /\ self = NoFields
    /\ tasks = <<>>

FindConsecutiveDays ==
    /\ op = "none"
    /\ op' = "find_consecutive_days"
    /\ arg' = <<>>
    /\ out' = find_consecutive_days(df)
    /\ UNCHANGED <<df, self, tasks>>

NextStreak == FindConsecutiveDays

SpecStreak == InitStreak /\ [][NextStreak]_vars

-----------------------------------------------------------------------------
(* Properties of find_consecutive_days (checked under SpecStreak).         *)

Pct == df.col[PCT_CHANGE]

\* bar k is an up day (sign = 1) or a down day (sign = -1)
HasSign(k, sign) == IF sign = 1 THEN Gt(Pct[k], Num(0)) ELSE Lt(Pct[k], Num(0))

\* bars a..b are consecutive days of the given sign
IsRun(a, b, sign) == a <= b /\ \A k \in a..b : HasSign(k, sign)

\* the length of the longest run of the given sign, 0 when there is none
LongestRun(sign) ==
    LET lens == {0} \cup {b - a + 1 : a \in 1..df.len, b \in 1..df.len}
    IN  CHOOSE m \in lens :
          /\ m = 0 \/ \E a \in 1..df.len : IsRun(a, a + m - 1, sign) /\ a + m - 1 <= df.len
          /\ \A a, b \in 1..df.len : IsRun(a, b, sign) => b - a + 1 <= m

\* the length of the run of the given sign that ends at the last bar
TrailingRun(sign) ==
    CHOOSE m \in 0..df.len :
      /\ \A k \in (df.len - m + 1)..df.len : HasSign(k, sign)
      /\ m = df.len \/ ~HasSign(df.len - m, sign)

\* the Series the claims speak of: non-empty, with a pct_change that is
\* undefined on the first bar at most
Scanned == op = "find_consecutive_days" /\ df.len >= 1 /\ HasCol(df, PCT_CHANGE)

\* C3: after the forward scan, max_up.days is the length of the longest run of
\* consecutive bars with pct_change > 0 and max_down.days that of the longest
\* run with pct_change < 0, a bar with pct_change = 0 ending any open run.
C3_MaxRuns ==
    Scanned =>
        /\ out.kind = "dict"
        /\ out.max_up.days = LongestRun(1)
        /\ out.max_down.days = LongestRun(-1)

\* [+1,+1,-1,0,+1] gives max_up = 2, max_down = 1
C3_Witness ==
    /\ Scanned
    /\ Pct = NumSeq(<<1, 1, -1, 0, 1>>)
    /\ out.max_up.days = 2
    /\ out.max_down.days = 1

\* C4: for every non-empty Series, current is {up, trailing run of up days}
\* when the last bar's pct_change > 0, {down, trailing run of down days} when
\* it is < 0, and {no type, 0} when it is 0.
C4_CurrentStreak ==
    Scanned =>
        LET last == Pct[df.len]
        IN  /\ out.kind = "dict"
            /\ Gt(last, Num(0)) =>
                 out.current = [type |-> "up", days |-> TrailingRun(1)]
            /\ Lt(last, Num(0)) =>
                 out.current = [type |-> "down", days |-> TrailingRun(-1)]
            /\ last = Num(0) => out.current = [type |-> "None", days |-> 0]

\* a Series that ends two days into a down streak after an up day
C4_Witness ==
    /\ Scanned
    /\ df.len >= 3
    /\ Gt(Pct[df.len - 2], Num(0))
    /\ out.current = [type |-> "down", days |-> 2]

\* the bar of a date (the k-th bar is dated day k)
BarOf(date) == CHOOSE k \in 1..df.len : df.col[DATE][k] = date

\* max is the earliest run of the given sign among the longest: its dates
\* bound exactly max.days consecutive bars of that sign, and no run of that
\* length starts earlier
EarliestLongest(max, sign) ==
    max.days > 0 =>
        /\ max.start \in Range(df.col[DATE]) /\ max.end \in Range(df.col[DATE])
        /\ BarOf(max.end) - BarOf(max.start) + 1 = max.days
        /\ IsRun(BarOf(max.start), BarOf(max.end), sign)
        /\ \A a \in 1..(BarOf(max.start) - 1) : ~IsRun(a, a + max.days - 1, sign)

\* C29: on a Series whose pct_change is undefined on the first bar at most,
\* the bars from max_up.start to max_up.end are exactly max_up.days
\* consecutive bars with pct_change > 0 (max_down likewise with < 0), the
\* earliest such run when several share the maximal length, and
\* current.days is at most max_up.days (max_down.days) when current is up
\* (down).
C29_RunsAndDates ==
    Scanned =>
        /\ EarliestLongest(out.max_up, 1)
        /\ EarliestLongest(out.max_down, -1)
        /\ out.current.type = "up" => out.current.days <= out.max_up.days
        /\ out.current.type = "down" => out.current.days <= out.max_down.days

\* two up runs of two days each, the first reported, the second still open
C29_Witness ==
    /\ Scanned
    /\ Pct = NumSeq(<<1, 1, -1, 1, 1>>)
    /\ out.max_up = [days |-> 2, start |-> 1, end |-> 2]
    /\ out.current = [type |-> "up", days |-> 2]

\* C18: for an empty Series or a Series with no pct_change field
\* find_consecutive_days returns the empty mapping it returns on an internal
\* error, never a null.
C18_EmptyRecordOnInsufficientInput ==
    (op = "find_consecutive_days" /\ (IsEmpty(df) \/ ~HasCol(df, PCT_CHANGE))) =>
        out = EmptyDict

-----------------------------------------------------------------------------
(* Specification SpecKDJ: calculate_kdj on a Series of high/low/close      *)
(* bars.  A bar's high and low bound its close (they are the session's     *)
(* extreme prices).                                                        *)

Bars ==
    {b \in [high : 1..MaxKdjPrice, low : 1..MaxKdjPrice, close : 1..MaxKdjPrice] :
        b.low <= b.close /\ b.close <= b.high}

BarSeqs == UNION {[1..n -> Bars] : n \in 0..MaxKdjLen}

BarFrame(bs) ==
    Frame(Len(bs),
          (HIGH :> [i \in 1..Len(bs) |-> Num(bs[i].high)]) @@
          (LOW :> [i \in 1..Len(bs) |-> Num(bs[i].low)]) @@
          (CLOSE :> [i \in 1..Len(bs) |-> Num(bs[i].close)]))

\* <<slowk_period, slowd_period>>
SlowPeriods == {<<2, 3>>, <<3, 2>>}

InitKDJ ==
    /\ df \in {BarFrame(bs) : bs \in BarSeqs}
    /\ op = "none"
    /\ arg = <<>>
    /\ out = EmptyFrame
    /\ self = NoFields
    /\ tasks = <<>>

CalcKDJ(fastk, slowk, slowd) ==
    /\ op = "none"
    /\ op' = "calculate_kdj"
    /\ arg' = <<fastk, slowk, slowd>>
    /\ out' = calculate_kdj(df, fastk, slowk, slowd)
    /\ UNCHANGED <<df, self, tasks>>

NextKDJ == \E fastk \in 1..MaxFastK : \E slow \in SlowPeriods : CalcKDJ(fastk, slow[1], slow[2])

SpecKDJ == InitKDJ /\ [][NextKDJ]_vars

-----------------------------------------------------------------------------
(* Properties of calculate_kdj (checked under SpecKDJ).                    *)

\* the largest high / smallest low among the fastk bars ending at i (i >= fastk)
MaxHigh(i, fastk) ==
    CHOOSE h \in {df.col[HIGH][j] : j \in (i - fastk + 1)..i} :
        \A j \in (i - fastk + 1)..i : Le(df.col[HIGH][j], h)

MinLow(i, fastk) ==
    CHOOSE l \in {df.col[LOW][j] : j \in (i - fastk + 1)..i} :
        \A j \in (i - fastk + 1)..i : Le(l, df.col[LOW][j])

\* RSV as the table of indicators defines it
RsvAt(i, fastk) ==
    IF i < fastk \/ MaxHigh(i, fastk) = MinLow(i, fastk) THEN NaN
    ELSE Mul(Div(Sub(df.col[CLOSE][i], MinLow(i, fastk)),
                 Sub(MaxHigh(i, fastk), MinLow(i, fastk))), Num(100))

\* RSV at every position
RsvSeq(fastk) == [i \in 1..df.len |-> RsvAt(i, fastk)]

\* x smoothed into prev with factor a
Smooth(a, prev, x) == Add(Mul(Sub(Num(1), a), prev), Mul(a, x))

RECURSIVE Pow(_, _)
Pow(x, k) == IF k = 0 THEN Num(1) ELSE Mul(x, Pow(x, k - 1))

\* the number of consecutive undefined entries of rsv right before position i
GapBefore(rsv, i) ==
    CHOOSE g \in 0..(i - 1) :
        /\ \A j \in (i - g)..(i - 1) : IsNaN(rsv[j])
        /\ g = i - 1 \/ NotNa(rsv[i - g - 1])

\* x blended into prev after g missing inputs
SmoothAfterGap(a, g, prev, x) ==
    LET old == Pow(Sub(Num(1), a), g + 1)
    IN  Div(Add(Mul(old, prev), Mul(a, x)), Add(old, a))

KdjCalled == op = "calculate_kdj" /\ df.len >= arg[1]

\* what claim C10 and its amendment share, rsv being RSV as the table defines
\* it and first the position of the first defined RSV (0 if there is none):
\* the code's RSV is rsv (undefined before the first full window and on a
\* window of zero range), K is undefined until the first defined RSV and equals
\* it there, D smooths K with 1/slowD, J = 3K - 2D
KdjFrame(rsv, first, K, D, J) ==
    /\ rsv_series(df, arg[1]) = rsv
    /\ \A i \in 1..df.len :
         /\ (first = 0 \/ i < first) => IsNaN(K[i]) /\ IsNaN(D[i])
         /\ i = first => K[i] = rsv[i] /\ D[i] = K[i]
         /\ (first # 0 /\ i > first) => D[i] = Smooth(Rat(1, arg[3]), D[i - 1], K[i])
         /\ J[i] = Sub(Mul(Num(3), K[i]), Mul(Num(2), D[i]))

FirstDefined(rsv) ==
    IF \A i \in 1..Len(rsv) : IsNaN(rsv[i]) THEN 0
    ELSE CHOOSE i \in 1..Len(rsv) : NotNa(rsv[i]) /\ \A j \in 1..(i - 1) : IsNaN(rsv[j])

\* K follows the plain recursion at every position after first
PlainRecursion(rsv, first, K, a) ==
    \A i \in 1..df.len :
        (first # 0 /\ i > first) => K[i] = Smooth(a, K[i - 1], rsv[i])

\* K follows the recursion that holds K over an undefined RSV and reweights
\* the next defined one
GapRecursion(rsv, first, K, a) ==
    \A i \in 1..df.len :
        (first # 0 /\ i > first) =>
            K[i] = IF IsNaN(rsv[i]) THEN K[i - 1]
                   ELSE SmoothAfterGap(a, GapBefore(rsv, i), K[i - 1], rsv[i])

GapAt(rsv, K, a, i) ==
    /\ NotNa(rsv[i - 1])
    /\ IsNaN(rsv[i])
    /\ NotNa(rsv[i + 1])
    /\ K[i] = K[i - 1]
    /\ K[i + 1] # Smooth(a, K[i], rsv[i + 1])

InPercentRange(v) == NotNa(v) => Ge(v, Num(0)) /\ Le(v, Num(100))

\* C30: on a Series in which every bar has low <= close <= high, every
\* defined K and every defined D lies in [0, 100] at every index (J = 3K - 2D
\* is not so bounded).
C30_KDWithinRange ==
    KdjCalled =>
        \A i \in 1..df.len :
            /\ InPercentRange(out.col[<<"K", 0>>][i])
            /\ InPercentRange(out.col[<<"D", 0>>][i])

\* a Series with a J above 100 at a bar where K and D are defined (and so
\* within [0, 100])
C30_Witness ==
    /\ KdjCalled
    /\ \A i \in 1..df.len : df.col[LOW][i].n <= df.col[CLOSE][i].n
                              /\ df.col[CLOSE][i].n <= df.col[HIGH][i].n
    /\ \E i \in 1..df.len :
          /\ IsFin(out.col[<<"K", 0>>][i]) /\ IsFin(out.col[<<"D", 0>>][i])
          /\ Gt(out.col[<<"J", 0>>][i], Num(100))

-----------------------------------------------------------------------------
(* Specification SpecAll: calculate_all_indicators on an OHLCV Series from *)
(* which any of the columns close, high, low, volume may be missing (a     *)
(* malformed row set, the failure the per-family try/except is there for). *)

OHLCV == {CLOSE, HIGH, LOW, VOLUME}

\* the walks of at most MaxAllLen positive closes
AllCloseSeqs ==
    {<<>>} \cup
    {w \in {Walk(c0, st) : c0 \in 1..MaxAllPrice,
                           st \in UNION {[1..n -> Steps] : n \in 0..(MaxAllLen - 1)}} :
        \A i \in 1..Len(w) : w[i] > 0}

\* the bars around a walk of closes: the session ranges one above the close,
\* the volume grows by one a day
FullFrame(w) ==
    Frame(Len(w),
          (CLOSE :> NumSeq(w)) @@
          (HIGH :> [i \in 1..Len(w) |-> Num(w[i] + 1)]) @@
          (LOW :> NumSeq(w)) @@
          (VOLUME :> [i \in 1..Len(w) |-> Num(i)]))

\* f without the columns in missing
Without(f, missing) == [f EXCEPT !.col = [c \in DOMAIN f.col \ missing |-> f.col[c]]]

AllFrames == {Without(FullFrame(w), missing) : w \in AllCloseSeqs, missing \in SUBSET OHLCV}

InitAll ==
    /\ df \in AllFrames
    /\ op = "none"
    /\ arg = <<>>
    /\ out = EmptyFrame
    /\ self = NoFields
    /\ tasks = <<>>

CalcAll ==
    /\ op = "none"
    /\ op' = "calculate_all_indicators"
    /\ arg' = <<>>
    /\ out' = calculate_all_indicators(df)
    /\ UNCHANGED <<df, self, tasks>>

NextAll == CalcAll

SpecAll == InitAll /\ [][NextAll]_vars

-----------------------------------------------------------------------------
(* Properties of calculate_all_indicators (checked under SpecAll).         *)

Families == {"MA", "EMA", "BOLL", "RSI", "KDJ", "MACD", "VOL_MA", "OBV"}

\* the columns a family may add
FamilyColumns(fam) ==
    CASE fam = "MA" -> {<<"MA", p>> : p \in Range(MA_PERIODS)}
      [] fam = "EMA" -> {<<"EMA", p>> : p \in Range(EMA_PERIODS)}
      [] fam = "BOLL" -> {<<"BOLL_MID", 0>>, <<"BOLL_UPPER", 0>>, <<"BOLL_LOWER", 0>>}
      [] fam = "RSI" -> {<<"RSI", p>> : p \in Range(RSI_PERIODS)}
      [] fam = "KDJ" -> {<<"K", 0>>, <<"D", 0>>, <<"J", 0>>}
      [] fam = "MACD" -> MACDColumns
      [] fam = "VOL_MA" -> {<<"VOL_MA", p>> : p \in Range(VOL_MA_PERIODS)}
      [] fam = "OBV" -> {<<"OBV", 0>>}

\* the family computed alone on the caller's Series
Alone(fam) ==
    CASE fam = "MA" -> calculate_ma(df, MA_PERIODS)
      [] fam = "EMA" -> calculate_ema(df, EMA_PERIODS)
      [] fam = "BOLL" -> calculate_boll(df, BOLL_PERIOD, BOLL_STD)
      [] fam = "RSI" -> calculate_rsi(df, RSI_PERIODS)
      [] fam = "KDJ" -> calculate_kdj(df, KDJ_FASTK, KDJ_SLOWK, KDJ_SLOWD)
      [] fam = "MACD" -> calculate_macd(df, MACD_FAST, MACD_SLOW, MACD_SIGNAL)
      [] fam = "VOL_MA" -> calculate_volume_ma(df, VOL_MA_PERIODS)
      [] fam = "OBV" -> calculate_obv(df)

\* the family's computation raises on the caller's Series
Fails(fam) ==
    CASE fam = "MA" -> ma_loop(df, MA_PERIODS, 1, df).raised
      [] fam = "EMA" -> ema_loop(df, EMA_PERIODS, 1, df).raised
      [] fam = "BOLL" -> boll_body(df, BOLL_PERIOD, BOLL_STD).raised
      [] fam = "RSI" -> rsi_loop(df, RSI_PERIODS, 1, df).raised
      [] fam = "KDJ" -> kdj_body(df, KDJ_FASTK, KDJ_SLOWK, KDJ_SLOWD).raised
      [] fam = "MACD" -> macd_body(df, MACD_FAST, MACD_SLOW, MACD_SIGNAL).raised
      [] fam = "VOL_MA" -> volume_ma_loop(df, VOL_MA_PERIODS, 1, df).raised
      [] fam = "OBV" -> obv_body(df).raised

\* C1: calculate_all_indicators does not raise; whichever families fail, the
\* result holds the caller's columns unchanged, every indicator of every family
\* that does not fail with the values that family produces when computed alone,
\* and no column of a failing family.
C1_FaultIsolation ==
    op = "calculate_all_indicators" =>
        /\ out.len = df.len
        /\ \A c \in Columns(df) : HasCol(out, c) /\ out.col[c] = df.col[c]
        /\ \A fam \in Families :
             /\ Fails(fam) => Columns(out) \cap FamilyColumns(fam) = {}
             /\ ~Fails(fam) =>
                  /\ Columns(out) \cap FamilyColumns(fam) = Columns(Alone(fam)) \ Columns(df)
                  /\ \A c \in Columns(out) \cap FamilyColumns(fam) :
                       out.col[c] = Alone(fam).col[c]
        /\ Columns(out) \subseteq Columns(df) \cup UNION {FamilyColumns(fam) : fam \in Families}

\* the high column is missing: KDJ alone fails, and the families before and
\* after it are all there
C1_Witness ==
    /\ op = "calculate_all_indicators"
    /\ {fam \in Families : Fails(fam)} = {"KDJ"}
    /\ df.len = MaxAllLen
    /\ FamilyColumns("MA") \cup FamilyColumns("EMA") \cup FamilyColumns("BOLL")
         \cup FamilyColumns("RSI") \cup FamilyColumns("MACD")
         \cup FamilyColumns("VOL_MA") \cup FamilyColumns("OBV") \subseteq Columns(out)
    /\ Columns(out) \cap FamilyColumns("KDJ") = {}

-----------------------------------------------------------------------------
(* Specification SpecSummary: generate_summary on a Series from which any  *)
(* column may be missing, with the signal bundle the caller supplies.      *)

SumCloseSeqs ==
    {<<>>} \cup
    {w \in {Walk(c0, st) : c0 \in 1..MaxSumPrice,
                           st \in UNION {[1..n -> Steps] : n \in 0..(MaxSumLen - 1)}} :
        \A i \in 1..Len(w) : w[i] > 0}

\* pct_change as the fetchers compute it: close.pct_change() * 100
SummaryFrame(w) ==
    [FullFrame(w) EXCEPT
        !.col = (PCT_CHANGE :> [i \in 1..Len(w) |-> Mul(pct_change(NumSeq(w))[i], Num(100))])
                @@ (DATE :> DateSeq(Len(w))) @@ @]

SummaryFrames ==
    {Without(SummaryFrame(w), missing) :
        w \in SumCloseSeqs, missing \in SUBSET (OHLCV \cup {PCT_CHANGE, DATE})}

\* the signal bundles handed in: the empty one and a populated one
SignalBundles == {EmptyDict, [kind |-> "dict", ma |-> <<>>, macd |-> <<>>]}

InitSummary ==
    /\ df \in SummaryFrames
    /\ op = "none"
    /\ arg = <<>>
    /\ out = EmptyDict
    /\ self = NoFields
    /\ tasks = <<>>

GenerateSummary(indicators) ==
    /\ op = "none"
    /\ op' = "generate_summary"
    /\ arg' = <<indicators>>
    /\ out' = generate_summary(df, indicators)
    /\ UNCHANGED <<df, self, tasks>>

NextSummary == \E indicators \in SignalBundles : GenerateSummary(indicators)

SpecSummary == InitSummary /\ [][NextSummary]_vars

-----------------------------------------------------------------------------
(* Properties of generate_summary (checked under SpecSummary).             *)

SummaryFields ==
    {"statistics", "volatility", "consecutive_days", "support_resistance",
     "volume_price", "indicators", "generated_at"}

\* C2: for every input generate_summary returns a record holding all seven
\* fields; a sub-computation that fails or lacks input leaves an explicit empty
\* record in its field, never a null, and every other field equals the result
\* of its operation called on the same Series on its own.
C2_SummaryFaultIsolation ==
    op = "generate_summary" =>
        /\ out.kind = "dict"
        /\ SummaryFields \subseteq DOMAIN out
        /\ out.statistics = calculate_statistics(df)
        /\ out.volatility = calculate_volatility(df, VOLATILITY_WINDOW)
        /\ out.support_resistance = detect_support_resistance(df, SR_WINDOW, SR_NUM_LEVELS)
        /\ out.volume_price = analyze_volume_price(df)
        /\ out.indicators = arg[1]
        /\ \A field \in SummaryFields \ {"indicators", "generated_at"} :
             out[field].kind \in {"dict", "empty"}

-----------------------------------------------------------------------------
(* Specification SpecOps: every calculate_* method and                     *)
(* calculate_all_indicators, with the default parameters, on an OHLCV      *)
(* Series from which columns may be missing.  arg keeps the frame as it    *)
(* was passed; df is the frame the caller holds after the call.            *)

InitOps ==
    /\ df \in AllFrames
    /\ op = "none"
    /\ arg = <<>>
    /\ out = EmptyFrame
    /\ self = NoFields
    /\ tasks = <<>>

\* one call: the method's name and the value it returned
Call(name, returned) ==
    /\ op = "none"
    /\ op' = name
    /\ arg' = <<df>>
    /\ out' = returned
    /\ df' = caller_frame(df, out')
    /\ UNCHANGED <<self, tasks>>

OpMA == Call("calculate_ma", calculate_ma(df, MA_PERIODS))

OpEMA == Call("calculate_ema", calculate_ema(df, EMA_PERIODS))

OpBOLL == Call("calculate_boll", calculate_boll(df, BOLL_PERIOD, BOLL_STD))

OpRSI == Call("calculate_rsi", calculate_rsi(df, RSI_PERIODS))

OpKDJ == Call("calculate_kdj", calculate_kdj(df, KDJ_FASTK, KDJ_SLOWK, KDJ_SLOWD))

OpMACD == Call("calculate_macd", calculate_macd(df, MACD_FAST, MACD_SLOW, MACD_SIGNAL))

OpVolumeMA == Call("calculate_volume_ma", calculate_volume_ma(df, VOL_MA_PERIODS))

OpOBV == Call("calculate_obv", calculate_obv(df))

\* calculate_all_indicators hands its own result = df.copy() to the methods
OpAll == Call("calculate_all_indicators", calculate_all_indicators(df))

NextOps ==
    \/ OpMA
    \/ OpEMA
    \/ OpBOLL
    \/ OpRSI
    \/ OpKDJ
    \/ OpMACD
    \/ OpVolumeMA
    \/ OpOBV
    \/ OpAll

SpecOps == InitOps /\ [][NextOps]_vars

-----------------------------------------------------------------------------
(* Properties of the single operations (checked under SpecOps).            *)

\* calculate_obv was called on a frame that has closes and volumes
ObvCalled ==
    /\ op = "calculate_obv"
    /\ HasCol(arg[1], CLOSE)
    /\ HasCol(arg[1], VOLUME)

\* obv is the on-balance volume of the closes and volumes of f
IsOBV(f, obv) ==
    /\ Len(obv) = f.len
    /\ \A i \in 1..f.len :
         LET c == f.col[CLOSE]
             v == f.col[VOLUME]
         IN  obv[i] = IF i = 1 THEN v[1]
                      ELSE IF Gt(c[i], c[i - 1]) THEN Add(obv[i - 1], v[i])
                      ELSE IF Lt(c[i], c[i - 1]) THEN Sub(obv[i - 1], v[i])
                      ELSE obv[i - 1]

\* C11 as stated: OBV is defined at every index of every non-empty Series,
\* a single-bar Series included: obv[0] = volume[0] and obv[i] is obv[i-1]
\* plus, minus or without volume[i] as the close rose, fell or stayed.
C11_OBVForEverySeries ==
    (ObvCalled /\ arg[1].len >= 1) =>
        /\ HasCol(out, <<"OBV", 0>>)
        /\ IsOBV(arg[1], out.col[<<"OBV", 0>>])

\* C11 amended: OBV is that sequence for every Series of at least two bars;
\* a Series of one bar (or none) is returned without an OBV.
C11_OBVFromTwoBars ==
    ObvCalled =>
        IF arg[1].len >= 2
        THEN /\ HasCol(out, <<"OBV", 0>>)
             /\ IsOBV(arg[1], out.col[<<"OBV", 0>>])
        ELSE out = arg[1]

\* a rise, a flat day and a fall in one Series, each moving OBV its own way
C11_Witness ==
    /\ ObvCalled
    /\ HasCol(out, <<"OBV", 0>>)
    /\ \E i, j, k \in 2..arg[1].len :
         LET c == arg[1].col[CLOSE]
             obv == out.col[<<"OBV", 0>>]
         IN  /\ Gt(c[i], c[i - 1]) /\ Gt(obv[i], obv[i - 1])
             /\ c[j] = c[j - 1] /\ obv[j] = obv[j - 1]
             /\ Lt(c[k], c[k - 1]) /\ Lt(obv[k], obv[k - 1])

\* C12: every indicator operation, whether it succeeds or fails, returns the
\* bars it was given, in their order and number, with every indicator
\* sequence aligned to them one to one, and leaves the caller's Series as it
\* was: no column added, no value altered.
C12_FrameEffect ==
    op # "none" =>
        /\ out.len = arg[1].len
        /\ \A c \in Columns(arg[1]) : HasCol(out, c) /\ out.col[c] = arg[1].col[c]
        /\ \A c \in Columns(out) : Len(out.col[c]) = arg[1].len
        /\ df = arg[1]

\* a call that added indicator sequences to what it returned while one of
\* its families failed on a missing column
C12_Witness ==
    /\ op = "calculate_all_indicators"
    /\ arg[1].len >= 3
    /\ ~HasCol(arg[1], VOLUME)
    /\ HasCol(out, <<"MA", 2>>)
    /\ ~HasCol(out, <<"OBV", 0>>)
    /\ Columns(out) # Columns(arg[1])
    /\ df = arg[1]

-----------------------------------------------------------------------------
(* Specification SpecTasks: several invocations of                         *)
(* calculate_all_indicators on one IndicatorCalculator, interleaved line   *)
(* by line of the chain (the API module holds one instance that every     *)
(* request handler calls, src/src/api/main.py line 43).                    *)
(* A task is at line pc of the chain: 0 not invoked, 1..CHAIN about to run *)
(* that method, CHAIN + 1 returned.  overlapped records, for observation   *)
(* only, that another invocation was in progress while the task ran.       *)

TaskIds == 1..MaxTasks

\* the Series handed to the invocations
TaskSeries == {<<1, 2, 3, 2>>, <<3, 2, 2>>}

TaskFrames == {FullFrame(w) : w \in TaskSeries}

Idle == [pc |-> 0, input |-> EmptyFrame, result |-> EmptyFrame, overlapped |-> FALSE]

Running(t) == tasks[t].pc \in 1..CHAIN

Done(t) == tasks[t].pc = CHAIN + 1

InitTasks ==
    /\ df = EmptyFrame
    /\ op = "none"
    /\ arg = <<>>
    /\ out = EmptyFrame
    /\ self = NoFields
    /\ tasks = [t \in TaskIds |-> Idle]

\* the call and "result = df.copy()"
Invoke(t, f) ==
    /\ tasks[t].pc = 0
    /\ tasks' = [tasks EXCEPT ![t] = [pc |-> 1, input |-> f, result |-> df_copy(f).frame,
                                      overlapped |-> FALSE]]
    /\ UNCHANGED <<df, op, arg, out, self>>

\* the next line of the chain of task t
Step(t) ==
    /\ Running(t)
    /\ LET s == family_step(self, tasks[t].pc, tasks[t].result)
       IN  /\ self' = s.self
           /\ tasks' = [tasks EXCEPT ![t] =
                           [pc |-> @.pc + 1, input |-> @.input, result |-> s.result,
                            overlapped |-> @.overlapped \/ \E u \in TaskIds \ {t} : Running(u)]]
    /\ UNCHANGED <<df, op, arg, out>>

NextTasks ==
    \/ \E t \in TaskIds : \E f \in TaskFrames : Invoke(t, f)
    \/ \E t \in TaskIds : Step(t)

SpecTasks == InitTasks /\ [][NextTasks]_vars

-----------------------------------------------------------------------------
(* Properties of interleaved invocations (checked under SpecTasks).        *)

\* C13: calculate_all_indicators is a function of its input with no hidden
\* state: an invocation returns what a call on its Series alone returns,
\* however it was interleaved with others, so two invocations on the same
\* Series return identical IndicatorSets; the instance is left as it was.
C13_Deterministic ==
    /\ self = NoFields
    /\ \A t \in TaskIds : Done(t) => tasks[t].result = calculate_all_indicators(tasks[t].input)
    /\ \A t, u \in TaskIds :
         (Done(t) /\ Done(u) /\ tasks[t].input = tasks[u].input) =>
             tasks[t].result = tasks[u].result

\* two invocations on the same Series have returned, having run interleaved
C13_Witness ==
    \E t, u \in TaskIds :
        /\ t # u
        /\ Done(t) /\ Done(u)
        /\ tasks[t].input = tasks[u].input
        /\ tasks[t].overlapped /\ tasks[u].overlapped
        /\ HasCol(tasks[t].result, <<"OBV", 0>>)
        /\ tasks[t].result = tasks[u].result

-----------------------------------------------------------------------------
(* Specification SpecSignals: get_latest_signals on a frame with           *)
(* indicators.  The frames are (composed) what calculate_all_indicators    *)
(* returns for a fetched Series, from which the columns change and         *)
(* pct_change may be missing, and (rows) two bars whose indicator values   *)
(* are drawn around the thresholds the signals test, values that composed  *)
(* frames of a few bars do not reach.  arg names the kind of frame.        *)

\* a fetched frame: OHLCV with the day's change and percent change
Fetched(w) ==
    LET f == FullFrame(w)
    IN  SetCol(SetCol(f, PCT_CHANGE,
                      [i \in 1..f.len |-> Mul(pct_change(f.col[CLOSE])[i], Num(100))]),
               CHANGE, diff(f.col[CLOSE]))

ComposedFrames ==
    {calculate_all_indicators(Without(Fetched(w), missing)) :
        w \in AllCloseSeqs, missing \in SUBSET {CHANGE, PCT_CHANGE}}

\* two bars closing at 50 with the given indicator columns
Rows(cols) == Frame(2, (CLOSE :> <<Num(50), Num(50)>>) @@ cols)

\* DIF and DEA below, at and above each other, or undefined
CrossLevels == {NaN, Num(-1), Num(0), Num(1)}

MacdRows ==
    {Rows((<<"MACD_DIF", 0>> :> <<pd, d>>) @@ (<<"MACD_DEA", 0>> :> <<pe, e>>) @@
          (IF with_hist
           THEN (<<"MACD_HIST", 0>> :> <<Mul(Sub(pd, pe), Num(2)), Mul(Sub(d, e), Num(2))>>)
           ELSE <<>>)) :
        pd \in CrossLevels, d \in CrossLevels, pe \in CrossLevels, e \in CrossLevels,
        with_hist \in BOOLEAN}

\* K, D and RSI below, on and above their thresholds, or undefined
KdjLevels == {NaN, Num(10), Num(20), Num(50), Num(80), Num(90)}

RsiLevels == {NaN, Num(20), Num(30), Num(50), Num(70), Num(80)}

OscillatorRows ==
    {Rows((<<"K", 0>> :> <<k, k>>) @@ (<<"D", 0>> :> <<d, d>>) @@
          (<<"J", 0>> :> <<Sub(Mul(Num(3), k), Mul(Num(2), d)),
                          Sub(Mul(Num(3), k), Mul(Num(2), d))>>) @@
          (<<"RSI", 2>> :> <<r, r>>)) :
        k \in KdjLevels, d \in KdjLevels, r \in RsiLevels}

InitSignals ==
    /\ \/ arg = <<"composed">> /\ df \in ComposedFrames
       \/ arg = <<"rows">> /\ df \in MacdRows \cup OscillatorRows
    /\ op = "none"
    /\ out = EmptyDict
    /\ self = NoFields
    /\ tasks = <<>>

GetLatestSignals ==
    /\ op = "none"
    /\ op' = "get_latest_signals"
    /\ out' = get_latest_signals(df)
    /\ UNCHANGED <<df, arg, self, tasks>>

NextSignals == GetLatestSignals

SpecSignals == InitSignals /\ [][NextSignals]_vars

-----------------------------------------------------------------------------
(* Properties of get_latest_signals (checked under SpecSignals).           *)

\* a bundle was returned (not the empty dict)
Bundle == op = "get_latest_signals" /\ out.kind = "dict"

\* the value of column c at the last bar (k = 0) or the bar before (k = 1)
At(c, k) == df.col[c][df.len - k]

\* a < b for two finite values, by cross-multiplication
Below(a, b) == a.n * b.d < b.n * a.d

\* C14: golden_cross is true exactly when previous DIF <= previous DEA and
\* current DIF > current DEA, death_cross exactly when previous DIF >=
\* previous DEA and current DIF < current DEA; with current DIF = current
\* DEA neither is set, and the two are never both true.
C14_MacdCross ==
    (Bundle /\ out.macd # <<>>) =>
        LET dif == At(<<"MACD_DIF", 0>>, 0)
            dea == At(<<"MACD_DEA", 0>>, 0)
            prev_dif == At(<<"MACD_DIF", 0>>, 1)
            prev_dea == At(<<"MACD_DEA", 0>>, 1)
        IN  /\ out.macd.golden_cross <=> (~Below(prev_dea, prev_dif) /\ Below(dea, dif))
            /\ out.macd.death_cross <=> (~Below(prev_dif, prev_dea) /\ Below(dif, dea))
            /\ dif = dea => ~out.macd.golden_cross /\ ~out.macd.death_cross
            /\ ~(out.macd.golden_cross /\ out.macd.death_cross)

\* DIF and DEA tied on the previous bar, DIF above DEA on the last: a golden
\* cross
C14_Witness ==
    /\ Bundle
    /\ out.macd # <<>>
    /\ At(<<"MACD_DIF", 0>>, 1) = At(<<"MACD_DEA", 0>>, 1)
    /\ Below(At(<<"MACD_DEA", 0>>, 0), At(<<"MACD_DIF", 0>>, 0))
    /\ out.macd.golden_cross
    /\ ~out.macd.death_cross

\* C15: a signal is emitted only if every value it depends on is defined at
\* the bar it is read from, and no numeric field of the bundle (the MACD hist
\* and the price change fields included) holds a default placeholder in place
\* of a missing value: each is the value the frame has for it.
C15_NoPlaceholder ==
    Bundle =>
        /\ HasCol(df, CHANGE) /\ out.price.change = At(CHANGE, 0)
        /\ HasCol(df, PCT_CHANGE) /\ out.price.pct_change = At(PCT_CHANGE, 0)
        /\ out.macd # <<>> =>
             /\ \A c \in {<<"MACD_DIF", 0>>, <<"MACD_DEA", 0>>} :
                  NotNa(At(c, 0)) /\ NotNa(At(c, 1))
             /\ HasCol(df, <<"MACD_HIST", 0>>) /\ out.macd.hist = At(<<"MACD_HIST", 0>>, 0)
        /\ out.kdj # <<>> => \A c \in {<<"K", 0>>, <<"D", 0>>, <<"J", 0>>} : NotNa(At(c, 0))
        /\ \A c \in DOMAIN out.ma : NotNa(At(c, 0))
        /\ \A c \in DOMAIN out.rsi : NotNa(At(c, 0))

\* C16: the per-MA part of the bundle of a composed frame has exactly one
\* entry for each MA(p) defined at the last bar, 'above' when the last close
\* is greater than it and 'below' otherwise, and no entry for anything that
\* is not a price moving average, the MACD lines in particular.
C16_PerMAEntries ==
    (Bundle /\ arg = <<"composed">>) =>
        /\ DOMAIN out.ma = {c \in Columns(df) : c[1] = "MA" /\ NotNa(At(c, 0))}
        /\ \A c \in DOMAIN out.ma :
             /\ out.ma[c].value = At(c, 0)
             /\ out.ma[c].position = IF Below(At(c, 0), At(CLOSE, 0)) THEN "above" ELSE "below"

\* C17: on the last bar KDJ is overbought iff K > 80 and D > 80, oversold iff
\* K < 20 and D < 20, each RSI overbought iff its value > 70 and oversold iff
\* < 30; a value exactly on a threshold sets neither flag, and no signal has
\* both flags.
C17_StrictThresholds ==
    Bundle =>
        /\ out.kdj # <<>> =>
             LET k == At(<<"K", 0>>, 0)
                 d == At(<<"D", 0>>, 0)
             IN  /\ out.kdj.overbought <=> (Below(Num(80), k) /\ Below(Num(80), d))
                 /\ out.kdj.oversold <=> (Below(k, Num(20)) /\ Below(d, Num(20)))
                 /\ (k \in {Num(80), Num(20)} \/ d \in {Num(80), Num(20)}) =>
                      ~out.kdj.overbought /\ ~out.kdj.oversold
                 /\ ~(out.kdj.overbought /\ out.kdj.oversold)
        /\ \A c \in DOMAIN out.rsi :
             /\ out.rsi[c].overbought <=> Below(Num(70), At(c, 0))
             /\ out.rsi[c].oversold <=> Below(At(c, 0), Num(30))
             /\ At(c, 0) \in {Num(70), Num(30)} =>
                  ~out.rsi[c].overbought /\ ~out.rsi[c].oversold
             /\ ~(out.rsi[c].overbought /\ out.rsi[c].oversold)

\* K exactly 80 with D above it and RSI exactly 70: no flag is set
C17_Witness ==
    /\ Bundle
    /\ out.kdj # <<>>
    /\ At(<<"K", 0>>, 0) = Num(80)
    /\ At(<<"D", 0>>, 0) = Num(90)
    /\ ~out.kdj.overbought
    /\ <<"RSI", 2>> \in DOMAIN out.rsi
    /\ At(<<"RSI", 2>>, 0) = Num(70)
    /\ ~out.rsi[<<"RSI", 2>>].overbought

-----------------------------------------------------------------------------
(* Specification SpecCorr: calculate_correlation on two Series of dated    *)
(* closes.  df is the pair <<df1, df2>>; each Series has its own trading   *)
(* days out of MaxCorrDays, in ascending order, one bar a day.             *)

\* the days of D in ascending order
Ascending(D) ==
    [k \in 1..Cardinality(D) |-> CHOOSE d \in D : Cardinality({e \in D : e < d}) = k - 1]

CorrFrames ==
    {Frame(Cardinality(D), (DATE :> Ascending(D)) @@
                           (CLOSE :> [k \in 1..Cardinality(D) |-> Num(price[Ascending(D)[k]])])) :
        D \in SUBSET (1..MaxCorrDays), price \in [1..MaxCorrDays -> 1..MaxCorrPrice]}
    \cup {Frame(MaxCorrDays, DATE :> DateSeq(MaxCorrDays))}

InitCorr ==
    /\ df \in CorrFrames \X CorrFrames
    /\ op = "none"
    /\ arg = <<>>
    /\ out = Num(0)
    /\ self = NoFields
    /\ tasks = <<>>

CalcCorrelation ==
    /\ op = "none"
    /\ op' = "calculate_correlation"
    /\ out' = calculate_correlation(df[1], df[2])
    /\ UNCHANGED <<df, arg, self, tasks>>

NextCorr == CalcCorrelation

SpecCorr == InitCorr /\ [][NextCorr]_vars

-----------------------------------------------------------------------------
(* Properties of calculate_correlation (checked under SpecCorr).           *)

\* the days f has a bar for
Days(f) == IF HasCol(f, DATE) THEN Range(f.col[DATE]) ELSE {}

\* the closes of f on the days in D, in the order of f
ClosesOn(f, D) ==
    LET keep == {i \in 1..f.len : f.col[DATE][i] \in D}
    IN  [k \in 1..Cardinality(keep) |->
            f.col[CLOSE][CHOOSE i \in keep : Cardinality({j \in keep : j < i}) = k - 1]]

\* both Series have dates and closes
Dated == \A i \in 1..2 : HasCol(df[i], DATE) /\ HasCol(df[i], CLOSE)

\* the closes of the two Series on the days they share
Aligned(i) == ClosesOn(df[i], Days(df[1]) \cap Days(df[2]))

\* C19: calculate_correlation returns exactly 0.0 whenever no coefficient can
\* be computed: when either Series is empty, when fewer than 2 days are
\* shared, and when the aligned closes of either Series have zero variance;
\* it never returns NaN.
C19_ZeroWhenUndefined ==
    op = "calculate_correlation" =>
        /\ out # NaN
        /\ (~Dated
            \/ Cardinality(Days(df[1]) \cap Days(df[2])) < 2
            \/ \E i \in 1..2 : Cardinality(Range(Aligned(i))) = 1) => out = Num(0)

\* f without the bars on days outside D
OnDays(f, D) == Frame(Len(ClosesOn(f, D)), (DATE :> Ascending(Days(f) \cap D)) @@
                                           (CLOSE :> ClosesOn(f, D)))

\* C20: the correlation of a Series of at least 2 bars, not all closes equal,
\* with itself is 1.0, and days that only one of the two Series has never
\* influence the coefficient: it is the coefficient of the bars on the
\* shared days.
C20_SelfAndSharedDates ==
    (op = "calculate_correlation" /\ Dated) =>
        /\ (df[1] = df[2] /\ Cardinality(Range(df[1].col[CLOSE])) >= 2) => out = Num(1)
        /\ out = calculate_correlation(OnDays(df[1], Days(df[2])), OnDays(df[2], Days(df[1])))

\* the first Series has a day the second lacks, between the two days they
\* share, and on the shared days the closes move together: the coefficient
\* is 1.0
C20_Witness ==
    /\ op = "calculate_correlation"
    /\ Dated
    /\ Days(df[1]) \ Days(df[2]) = {2}
    /\ Days(df[2]) = {1, 3}
    /\ Cardinality(Range(Aligned(1))) >= 2
    /\ Aligned(1) = Aligned(2)
    /\ out = Num(1)

-----------------------------------------------------------------------------
(* Specification SpecCompare: compare_indices on a dict of OHLCV Series of *)
(* at most two bars, empty Series included.  df holds data_dict.           *)

CmpCloseSeqs == UNION {[1..n -> 1..MaxCmpPrice] : n \in 0..2}

CmpFrames == {FullFrame(w) : w \in CmpCloseSeqs}

InitCompare ==
    /\ df \in UNION {[1..n -> CmpFrames] : n \in 0..MaxCmpSeries}
    /\ op = "none"
    /\ arg = <<>>
    /\ out = EmptyDict
    /\ self = NoFields
    /\ tasks = <<>>

CompareIndices ==
    /\ op = "none"
    /\ op' = "compare_indices"
    /\ out' = compare_indices(df)
    /\ UNCHANGED <<df, arg, self, tasks>>

NextCompare == CompareIndices

SpecCompare == InitCompare /\ [][NextCompare]_vars

-----------------------------------------------------------------------------
(* Properties of compare_indices (checked under SpecCompare).              *)

\* the first-to-last % change of the closes of f
TotalPct(f) ==
    LET c == f.col[CLOSE]
    IN  Div(Mul(Sub(c[f.len], c[1]), Num(100)), c[1])

\* C21: ranking.by_change holds every non-empty input Series exactly once
\* (empty ones are skipped), in non-increasing order of first-to-last %
\* change, Series of equal % change in their input order.
C21_StableRanking ==
    (op = "compare_indices" /\ df # <<>>) =>
        LET by_change == out.ranking.by_change
            ranks == 1..Len(by_change)
        IN  /\ {by_change[i].symbol : i \in ranks} = {k \in 1..Len(df) : df[k].len > 0}
            /\ \A i, j \in ranks : i # j => by_change[i].symbol # by_change[j].symbol
            /\ \A i \in ranks : by_change[i].pct_change = TotalPct(df[by_change[i].symbol])
            /\ \A i, j \in ranks : i < j =>
                  /\ Ge(by_change[i].pct_change, by_change[j].pct_change)
                  /\ by_change[i].pct_change = by_change[j].pct_change
                        => by_change[i].symbol < by_change[j].symbol

\* three Series of which the last gained most and the first two, different
\* Series, gained the same
C21_Witness ==
    /\ op = "compare_indices"
    /\ Len(df) = 3
    /\ Len(out.ranking.by_change) = 3
    /\ <<out.ranking.by_change[1].symbol, out.ranking.by_change[2].symbol,
          out.ranking.by_change[3].symbol>> = <<3, 1, 2>>
    /\ out.ranking.by_change[2].pct_change = out.ranking.by_change[3].pct_change
    /\ df[1] # df[2]

-----------------------------------------------------------------------------
(* Specification SpecVolumePrice: analyze_volume_price on a Series of      *)
(* positive closes and non-negative volumes.                               *)

VpBars == [close : 1..MaxVpPrice, volume : 0..MaxVpVolume]

VpFrames ==
    {Frame(Len(bs), (CLOSE :> [i \in 1..Len(bs) |-> Num(bs[i].close)]) @@
                    (VOLUME :> [i \in 1..Len(bs) |-> Num(bs[i].volume)])) :
        bs \in UNION {[1..n -> VpBars] : n \in 0..MaxVpLen}}

InitVolumePrice ==
    /\ df \in VpFrames
    /\ op = "none"
    /\ arg = <<>>
    /\ out = EmptyDict
    /\ self = NoFields
    /\ tasks = <<>>

AnalyzeVolumePrice ==
    /\ op = "none"
    /\ op' = "analyze_volume_price"
    /\ out' = analyze_volume_price(df)
    /\ UNCHANGED <<df, arg, self, tasks>>

NextVolumePrice == AnalyzeVolumePrice

SpecVolumePrice == InitVolumePrice /\ [][NextVolumePrice]_vars

-----------------------------------------------------------------------------
(* Properties of analyze_volume_price (checked under SpecVolumePrice).     *)

\* the volumes of df as integers, their sum and their number
Volumes == [i \in 1..df.len |-> df.col[VOLUME][i].n]

RECURSIVE IntSum(_, _)
IntSum(s, n) == IF n = 0 THEN 0 ELSE s[n] + IntSum(s, n - 1)

VolumeTotal == IntSum(Volumes, df.len)

\* n * (latest volume - mean volume)
LatestExcess == df.len * Volumes[df.len] - VolumeTotal

\* n * n * (n - 1) * (the sample variance of the volumes)
ScaledVariance ==
    LET dev2 == [i \in 1..df.len |->
                    (df.len * Volumes[i] - VolumeTotal) * (df.len * Volumes[i] - VolumeTotal)]
    IN  IntSum(dev2, df.len)

\* the latest volume is at or above mean + k * stddev
AtOrAbove(k) ==
    /\ LatestExcess >= 0
    /\ (df.len - 1) * LatestExcess * LatestExcess >= k * k * ScaledVariance

\* the latest volume is below mean - stddev
BelowLow ==
    /\ LatestExcess < 0
    /\ (df.len - 1) * LatestExcess * LatestExcess > ScaledVariance

\* C22: the latest volume is classified with inclusive upper boundaries: at
\* or above mean + 2 stddev it is extremely_high, else at or above mean +
\* stddev it is high, else below mean - stddev it is low, else normal
\* (stated for Series whose volumes are not all equal).
C22_InclusiveBoundaries ==
    (op = "analyze_volume_price" /\ df.len >= 2 /\ ScaledVariance > 0) =>
        out.volume_status =
            IF AtOrAbove(2) THEN "extremely_high"
            ELSE IF AtOrAbove(1) THEN "high"
            ELSE IF BelowLow THEN "low"
            ELSE "normal"

\* the bars after the first whose price and volume deltas are both defined
BothDeltasDefined ==
    {i \in 2..df.len :
        /\ NotNa(pct_change(df.col[CLOSE])[i])
        /\ NotNa(pct_change(df.col[VOLUME])[i])}

\* C23: every bar whose price and volume deltas are both defined is counted
\* in exactly one of the four pattern buckets: the four counts sum to the
\* number of such bars.
C23_EveryBarBucketed ==
    op = "analyze_volume_price" /\ df.len >= 1 =>
        out.patterns.price_up_volume_up + out.patterns.price_up_volume_down
          + out.patterns.price_down_volume_up + out.patterns.price_down_volume_down
            = Cardinality(BothDeltasDefined)

-----------------------------------------------------------------------------
(* Specification SpecVolatility: calculate_volatility on a Series of       *)
(* closes with a window of 1..MaxVolWindow bars.                           *)

InitVolatility ==
    /\ df \in CloseFrames
    /\ op = "none"
    /\ arg = <<>>
    /\ out = EmptyDict
    /\ self = NoFields
    /\ tasks = <<>>

CalcVolatility(window) ==
    /\ op = "none"
    /\ op' = "calculate_volatility"
    /\ arg' = <<window>>
    /\ out' = calculate_volatility(df, window)
    /\ UNCHANGED <<df, self, tasks>>

NextVolatility == \E window \in 1..MaxVolWindow : CalcVolatility(window)

SpecVolatility == InitVolatility /\ [][NextVolatility]_vars

-----------------------------------------------------------------------------
(* Properties of calculate_volatility (checked under SpecVolatility).      *)

\* a volatility that is a number; two volatilities compare as the variances
\* they are the roots of
DefinedVol(v) == IsFin(v.annualized_sqrt)

VolLe(v, w) == Le(v.annualized_sqrt, w.annualized_sqrt)

\* C24: calculate_volatility returns the empty record exactly when the
\* Series has fewer than window bars; with at least window bars (exactly
\* window included) the rolling current, min, max and mean are defined
\* numbers with min <= current <= max and min <= mean <= max (stated for
\* windows of at least two bars, a standard deviation needing two values).
C24_DefinedFromWindowBars ==
    (op = "calculate_volatility" /\ arg[1] >= 2) =>
        /\ (out = EmptyDict) <=> (df.len < arg[1])
        /\ df.len >= arg[1] =>
              /\ DefinedVol(out.current) /\ DefinedVol(out.min) /\ DefinedVol(out.max)
              /\ out.avg # NaN
              /\ VolLe(out.min, out.current) /\ VolLe(out.current, out.max)
              /\ \A k \in 1..Len(out.avg.mean_of) :
                    VolLe(out.min, out.avg.mean_of[k]) /\ VolLe(out.avg.mean_of[k], out.max)

-----------------------------------------------------------------------------
(* Specification SpecSR: detect_support_resistance with a window of        *)
(* 1..MaxSrWindow bars and 1..MaxSrLevels levels.  The highs are 50, 51,   *)
(* ... (51 is exactly 2% above 50, every later step less than 2%); a       *)
(* bar's low is one below its high.  The Series are all those of at most   *)
(* MaxSrLen bars, and the zigzags of MaxSrPeaks peaks over floors at the   *)
(* lowest price or MaxSrPeaks troughs under ceilings at the highest.       *)

SrPrices == {50 + k : k \in 0..MaxSrStep}

\* the zigzag of 2 * Len(turns) + 1 bars that visits rest between the turns
Zigzag(rest, turns) ==
    [i \in 1..(2 * Len(turns) + 1) |-> IF i % 2 = 1 THEN rest ELSE turns[i \div 2]]

SrHighs ==
    UNION {[1..n -> SrPrices] : n \in 0..MaxSrLen}
      \cup {Zigzag(rest, turns) : rest \in {50, 50 + MaxSrStep},
                                  turns \in [1..MaxSrPeaks -> SrPrices]}

SrFrames ==
    {Frame(Len(h), (HIGH :> NumSeq(h)) @@ (LOW :> [i \in 1..Len(h) |-> Num(h[i] - 1)])) :
        h \in SrHighs}

InitSR ==
    /\ df \in SrFrames
    /\ op = "none"
    /\ arg = <<>>
    /\ out = EmptyDict
    /\ self = NoFields
    /\ tasks = <<>>

DetectSR(window, num_levels) ==
    /\ op = "none"
    /\ op' = "detect_support_resistance"
    /\ arg' = <<window, num_levels>>
    /\ out' = detect_support_resistance(df, window, num_levels)
    /\ UNCHANGED <<df, self, tasks>>

NextSR == \E window \in 1..MaxSrWindow, num_levels \in 1..MaxSrLevels : DetectSR(window, num_levels)

SpecSR == InitSR /\ [][NextSR]_vars

-----------------------------------------------------------------------------
(* Properties of detect_support_resistance (checked under SpecSR).         *)

SrCalled == op = "detect_support_resistance"

Levels(list) == {list[i] : i \in 1..Len(list)}

\* the bars with window bars on either side (Python window <= i < len - window)
Interior == {i \in 1..df.len : arg[1] < i /\ i <= df.len - arg[1]}

\* the high (low) of bar i is the largest (smallest) of the bars within
\* window of it
IsPeak(i) == \A j \in (i - arg[1])..(i + arg[1]) : Le(df.col[HIGH][j], df.col[HIGH][i])

IsTrough(i) == \A j \in (i - arg[1])..(i + arg[1]) : Ge(df.col[LOW][j], df.col[LOW][i])

\* the values of s at the positions in I, by position
RECURSIVE Pick(_, _, _)
Pick(s, I, i) ==
    IF i > Len(s) THEN <<>>
    ELSE (IF i \in I THEN <<s[i]>> ELSE <<>>) \o Pick(s, I, i + 1)

ResistanceCandidates == Pick(df.col[HIGH], {i \in Interior : IsPeak(i)}, 1)

SupportCandidates == Pick(df.col[LOW], {i \in Interior : IsTrough(i)}, 1)

ResistanceClusters == Levels(cluster_levels(ResistanceCandidates, TOLERANCE))

SupportClusters == Levels(cluster_levels(SupportCandidates, TOLERANCE))

\* list is the n highest of clusters (all of them if fewer), highest first
TopLevels(list, clusters, n) ==
    /\ Len(list) <= n
    /\ \A i, j \in 1..Len(list) : i < j => Gt(list[i], list[j])
    /\ Levels(list) = {c \in clusters : Cardinality({d \in clusters : Gt(d, c)}) < n}

C27_InteriorExtrema ==
    SrCalled =>
        /\ out.resistance =
              Take(sorted_reverse(cluster_levels(ResistanceCandidates, TOLERANCE)), arg[2])
        /\ out.support =
              Take(sorted_reverse(cluster_levels(SupportCandidates, TOLERANCE)), arg[2])
        /\ df.len <= 2 * arg[1] => out.resistance = <<>> /\ out.support = <<>>

\* the highest high is on the first bar and is no level, while an interior
\* peak is one
C27_Witness ==
    /\ SrCalled
    /\ out.resistance # <<>>
    /\ \A i \in 2..df.len : Gt(df.col[HIGH][1], df.col[HIGH][i])
    /\ df.col[HIGH][1] \notin Levels(out.resistance)
    /\ \E i \in Interior : df.col[HIGH][i] \in Levels(out.resistance)

\* the levels of list lie at least the tolerance apart, relative to the
\* lower one, and within the prices of s
Separated(list, s) ==
    /\ \A i \in 1..(Len(list) - 1) :
          Ge(Div(Sub(list[i], list[i + 1]), list[i + 1]), TOLERANCE)
    /\ \A i \in 1..Len(list) : Le(series_min(s), list[i]) /\ Le(list[i], series_max(s))

\* C28: two adjacent levels a < b of one returned list satisfy
\* (b - a) / a >= tolerance, every resistance level lies between the
\* smallest and the largest high and every support level between the
\* smallest and the largest low.
C28_LevelsSeparated ==
    SrCalled =>
        /\ Separated(out.resistance, df.col[HIGH])
        /\ Separated(out.support, df.col[LOW])

\* two resistance levels of which one is the mean of a cluster of several
\* highs and is itself no high
C28_Witness ==
    /\ SrCalled
    /\ Len(out.resistance) = 2
    /\ \E i \in 1..2 : out.resistance[i] \notin Levels(df.col[HIGH])

-----------------------------------------------------------------------------
(* Specification SpecCluster: cluster_levels, the function local to        *)
(* detect_support_resistance, with its default tolerance on a list of at   *)
(* most MaxLevels levels in any order.  df holds the list.                 *)

ClusterValues == {Num(100), Rat(203, 2), Num(102), Num(150)}

InitCluster ==
    /\ df \in UNION {[1..n -> ClusterValues] : n \in 0..MaxLevels}
    /\ op = "none"
    /\ arg = <<>>
    /\ out = <<>>
    /\ self = NoFields
    /\ tasks = <<>>

ClusterLevels ==
    /\ op = "none"
    /\ op' = "cluster_levels"
    /\ out' = cluster_levels(df, TOLERANCE)
    /\ UNCHANGED <<df, arg, self, tasks>>

NextCluster == ClusterLevels

SpecCluster == InitCluster /\ [][NextCluster]_vars

-----------------------------------------------------------------------------
(* Properties of cluster_levels (checked under SpecCluster).               *)

\* the levels of df in ascending order: position i holds the value with
\* fewer than i levels below it and at least i levels not above it
AscendingLevels ==
    [i \in 1..Len(df) |->
        CHOOSE v \in Levels(df) :
            /\ Cardinality({j \in 1..Len(df) : Lt(df[j], v)}) < i
            /\ Cardinality({j \in 1..Len(df) : Le(df[j], v)}) >= i]

\* the positions of AscendingLevels that open a cluster: the first, and
\* each one at least the tolerance above its predecessor
Opens ==
    {k \in 1..Len(df) :
        k = 1 \/ ~Lt(Div(Sub(AscendingLevels[k], AscendingLevels[k - 1]),
                         AscendingLevels[k - 1]), TOLERANCE)}

\* the position that opens the c-th cluster, and the one that closes it
OpenOf(c) == CHOOSE k \in Opens : Cardinality({j \in Opens : j < k}) = c - 1

CloseOf(c) == IF c = Cardinality(Opens) THEN Len(df) ELSE OpenOf(c + 1) - 1

\* C26: the clusters are those of the single pass over the ascending
\* levels in which a level joins the current cluster iff it is less than
\* the tolerance above the cluster's last member, each cluster reported as
\* the mean of its members; [100, 101.5, 150] at 2% gives [100.75, 150].
C26_GreedyClusters ==
    op = "cluster_levels" =>
        /\ Len(out) = Cardinality(Opens)
        /\ \A c \in 1..Len(out) :
              out[c] = Div(SeqSum(AscendingLevels, OpenOf(c), CloseOf(c)),
                           Num(CloseOf(c) - OpenOf(c) + 1))
        /\ df = <<Num(100), Rat(203, 2), Num(150)>> => out = <<Rat(403, 4), Num(150)>>

\* unsorted levels of which 102, exactly 2% above 100, opens a cluster of
\* its own after the two levels at 100 were merged
C26_Witness ==
    /\ op = "cluster_levels"
    /\ df = <<Num(102), Num(100), Num(100)>>
    /\ out = <<Num(100), Num(102)>>

====
